---- MODULE Spec2Model ----
(***************************************************************************)
(* A model of webm-meta-lite: the EBML primitive codec (decoder.ts), the   *)
(* element walkers and the three scanners (scanner.ts), the orchestrator   *)
(* parseWebm (index.ts) and the fixture builder buildWebm that the tests   *)
(* use to make files.                                                      *)
(*                                                                         *)
(* A file is a sequence of bytes 0..255; TLA+ sequences start at 1, file   *)
(* offsets at 0, so the byte at offset o is file[o + 1].  A JavaScript     *)
(* number that is always an integer in the code is an Int here; a number   *)
(* that comes from a float decode or from a division is an exact rational  *)
(* <<n, d>> in lowest terms (d = 0 encodes NaN <<0,0>> and the infinities  *)
(* <<1,0>>, <<-1,0>>).  null is the empty tuple, and a nullable integer v  *)
(* is <<v>>.  A function that can throw returns a record whose field err   *)
(* is "none" or the kind of the exception.                                 *)
(***************************************************************************)
EXTENDS Integers, Sequences, FiniteSets, TLC

\* --------------------------------------------------------------------------
\* constants.ts
\* --------------------------------------------------------------------------
IDS_EBML == 440786851
IDS_SEGMENT == 408125543
IDS_SEEK_HEAD == 290298740
IDS_INFO == 357149030
IDS_TRACKS == 374648427
IDS_CUES == 475249515
IDS_CLUSTER == 524531317
IDS_TIMECODE_SCALE == 2807729
IDS_DURATION == 17545
IDS_MUXING_APP == 19840
IDS_WRITING_APP == 22337
IDS_TRACK_ENTRY == 174
IDS_TRACK_NUMBER == 215
IDS_TRACK_TYPE == 131
IDS_CODEC_ID == 134
IDS_VIDEO == 224
IDS_PIXEL_WIDTH == 176
IDS_PIXEL_HEIGHT == 186
IDS_AUDIO == 225
IDS_SAMPLING_FREQ == 181
IDS_CHANNELS == 159
IDS_TIMECODE == 231
IDS_CUE_POINT == 187
IDS_CUE_TIME == 179
IDS_SIMPLE_BLOCK == 163
IDS_BLOCK_GROUP == 160
VINT_UNKNOWN_MARKER == -1

\* IDs the scanner writes as literals
ID_SEEK == 19899
ID_SEEK_ID == 21419
ID_SEEK_POSITION == 21420
ID_BLOCK == 161

\* the limits of scanHeader and scanTail
HEADER_SCAN_LIMIT == 65536
SCAN_SIZE == 2097152
\* the default of info.timecodeScale
DEFAULT_TIMECODE_SCALE == 1000000
\* the divisor that turns ticks * timecodeScale (nanoseconds) into seconds
NANOS_PER_SECOND == 1000000000

\* --------------------------------------------------------------------------
\* Bounds of the model
\* --------------------------------------------------------------------------
\* the longest VINT or ID whose value the model computes (2^(7*4) fits the
\* checker's integers; longer encodings are reported as "OutOfModel")
MaxVintLen == 4
\* the most bytes a truncation removes from the end of a file
MaxCut == 12
\* the number of junk bytes appended to a file that gets junk
MaxJunk == 3

\* --------------------------------------------------------------------------
\* JavaScript values
\* --------------------------------------------------------------------------
null == <<>>

Min(a, b) == IF a < b THEN a ELSE b

Max(a, b) == IF a > b THEN a ELSE b

Abs(a) == IF a < 0 THEN -a ELSE a

RECURSIVE GCD(_, _)
GCD(a, b) == IF b = 0 THEN a ELSE GCD(b, a % b)

\* the rational n/d in lowest terms, d > 0
Rat(n, d) ==
  LET g == GCD(Abs(n), d)
  IN  IF n = 0 THEN <<0, 1>> ELSE <<n \div g, d \div g>>

\* (r * a) / b for a rational r and integers a >= 0, b > 0, the way the
\* code computes (x * timecodeScale) / 1e9; the common factors are divided
\* out before the products are formed
MulDiv(r, a, b) ==
  IF r[2] = 0 THEN (IF a = 0 THEN <<0, 0>> ELSE r)
  ELSE IF r[1] = 0 \/ a = 0 THEN <<0, 1>>
  ELSE LET g1 == GCD(Abs(r[1]), b)
           n1 == r[1] \div g1
           b1 == b \div g1
           g2 == GCD(a, b1)
           a2 == a \div g2
           b2 == b1 \div g2
           g3 == GCD(a2, r[2])
       IN  Rat(n1 * (a2 \div g3), (r[2] \div g3) * b2)

\* The({e : x \in {v}}) is e with x standing for the value of v, which is
\* computed once however often e uses it
The(S) == CHOOSE e \in S : TRUE

\* JavaScript truthiness of a number: 0 and NaN are falsy
TruthyNumber(r) == r[1] # 0

\* --------------------------------------------------------------------------
\* DataView over a byte sequence (ECMAScript DataView, used by decoder.ts)
\* --------------------------------------------------------------------------
InView(view, o) == o >= 0 /\ o < Len(view)

getUint8(view, o) == view[o + 1]

\* val = (val * 256) + view.getUint8(offset + i) for i = 0 .. n-1, all the
\* bytes being inside the view
RECURSIVE BEUint(_, _, _, _)
BEUint(view, offset, n, val) ==
  IF n <= 0 THEN val
  ELSE BEUint(view, offset + 1, n - 1, (val * 256) + getUint8(view, offset))

\* the loop "for (i = 0; i < size; i++) val = val * 256 + view.getUint8(i)"
\* over the bytes a read returned; getUint8 throws a RangeError as soon as i
\* passes the end of a short read
readUint(data, size) ==
  IF size > Len(data) THEN [err |-> "RangeError", value |-> 0]
  ELSE [err |-> "none", value |-> BEUint(data, 0, size, 0)]

\* --------------------------------------------------------------------------
\* decoder.ts
\* --------------------------------------------------------------------------
\* faulty variant: the byte 0x00 taken for the first byte of an encoding of
\* eight bytes
VintLength_zeroIsEight(byte1) ==
  IF byte1 >= 128 THEN 1
  ELSE IF byte1 >= 64 THEN 2
  ELSE IF byte1 >= 32 THEN 3
  ELSE IF byte1 >= 16 THEN 4
  ELSE IF byte1 >= 8 THEN 5
  ELSE IF byte1 >= 4 THEN 6
  ELSE IF byte1 >= 2 THEN 7
  ELSE 8

\* the length the first byte selects: 1 + the number of its leading zero
\* bits, 0 when the byte is 0x00
VintLength(byte1) ==
  IF byte1 >= 128 THEN 1
  ELSE IF byte1 >= 64 THEN 2
  ELSE IF byte1 >= 32 THEN 3
  ELSE IF byte1 >= 16 THEN 4
  ELSE IF byte1 >= 8 THEN 5
  ELSE IF byte1 >= 4 THEN 6
  ELSE IF byte1 >= 2 THEN 7
  ELSE IF byte1 >= 1 THEN 8
  ELSE 0

Failed(kind) == [err |-> kind, value |-> 0, length |-> 0]

readVint(view, offset) ==
  IF ~InView(view, offset) THEN Failed("RangeError")
  ELSE LET byte1 == getUint8(view, offset)
           length == VintLength(byte1)
       IN  IF length = 0 THEN Failed("InvalidVint")
           ELSE IF offset + length > Len(view) THEN Failed("RangeError")
           ELSE IF length > MaxVintLen THEN Failed("OutOfModel")
           ELSE LET value == BEUint(view, offset + 1, length - 1,
                                    byte1 % (2 ^ (8 - length)))
                    maxVal == (2 ^ (7 * length)) - 1
                IN  IF value = maxVal
                    THEN [err |-> "none", value |-> VINT_UNKNOWN_MARKER,
                          length |-> length]
                    ELSE [err |-> "none", value |-> value, length |-> length]

readID(view, offset) ==
  IF ~InView(view, offset) THEN Failed("RangeError")
  ELSE LET byte1 == getUint8(view, offset)
           length == VintLength(byte1)
       IN  IF length = 0 THEN Failed("InvalidID")
           ELSE IF offset + length > Len(view) THEN Failed("RangeError")
           ELSE IF length > MaxVintLen THEN Failed("OutOfModel")
           ELSE [err |-> "none", value |-> BEUint(view, offset, length, 0),
                 length |-> length]

\* the number of trailing zero bytes of view[offset .. offset+n-1]
RECURSIVE TrailingZeroBytes(_, _, _)
TrailingZeroBytes(view, offset, n) ==
  IF n = 0 \/ getUint8(view, offset + n - 1) # 0 THEN 0
  ELSE 1 + TrailingZeroBytes(view, offset, n - 1)

\* the value of an IEEE-754 number with stored exponent e (bias given),
\* whose fraction is the integer frac over fracBits bits
IeeeValue(negative, e, bias, maxE, frac, fracBits) ==
  LET s == IF negative THEN -1 ELSE 1
  IN  IF e = maxE THEN (IF frac = 0 THEN <<s, 0>> ELSE <<0, 0>>)
      ELSE IF e = 0 /\ frac = 0 THEN <<0, 1>>
      ELSE LET sig == IF e = 0 THEN frac ELSE (2 ^ fracBits) + frac
               p == (IF e = 0 THEN 1 ELSE e) - bias - fracBits
           IN  IF p >= 0 THEN Rat(s * sig * (2 ^ p), 1)
               ELSE Rat(s * sig, 2 ^ (-p))

\* DataView.getFloat32(offset, false)
getFloat32(view, offset) ==
  LET b0 == getUint8(view, offset)
      b1 == getUint8(view, offset + 1)
      z == TrailingZeroBytes(view, offset + 2, 2)
      frac == BEUint(view, offset + 2, 2 - z, b1 % 128)
  IN  IeeeValue(b0 >= 128, ((b0 % 128) * 2) + (b1 \div 128), 127, 255,
                frac, 7 + (8 * (2 - z)))

\* DataView.getFloat64(offset, false); the trailing zero bytes of the
\* fraction are dropped before it is turned into an integer
getFloat64(view, offset) ==
  LET b0 == getUint8(view, offset)
      b1 == getUint8(view, offset + 1)
      z == TrailingZeroBytes(view, offset + 2, 6)
      frac == BEUint(view, offset + 2, 6 - z, b1 % 16)
  IN  IeeeValue(b0 >= 128, ((b0 % 128) * 16) + (b1 \div 16), 1023, 2047,
                frac, 4 + (8 * (6 - z)))

readFloat(view, offset, size) ==
  IF size = 4
  THEN IF offset + 4 > Len(view) THEN [err |-> "RangeError", value |-> <<0, 1>>]
       ELSE [err |-> "none", value |-> getFloat32(view, offset)]
  ELSE IF size = 8
  THEN IF offset + 8 > Len(view) THEN [err |-> "RangeError", value |-> <<0, 1>>]
       ELSE [err |-> "none", value |-> getFloat64(view, offset)]
  ELSE [err |-> "InvalidFloat", value |-> <<0, 1>>]

\* the replacement character a TextDecoder puts for a malformed sequence
REPLACEMENT_CHARACTER == 65533

\* TextDecoder("utf-8").decode of view[offset .. offset+size-1]; a string is
\* the sequence of its code points.  ArrayBuffer.slice clamps the range to
\* the buffer, so a short view gives a short string, never an exception.
\* Bytes below 0x80 decode to themselves; a byte of 0x80 and above is
\* decoded as malformed (the model's files hold no multi-byte sequences).
readString(view, offset, size) ==
  LET from == Min(Max(offset, 0), Len(view))
      to == Min(Max(offset + size, 0), Len(view))
  IN  [i \in 1..Max(to - from, 0) |->
         IF view[from + i] < 128 THEN view[from + i]
         ELSE REPLACEMENT_CHARACTER]

\* --------------------------------------------------------------------------
\* Objects built field by field (const info: any = {...}; const track: any = {})
\* --------------------------------------------------------------------------
EmptyObject == [k \in {} |-> 0]

Has(obj, key) == key \in DOMAIN obj

SetField(obj, key, val) == (key :> val) @@ obj

\* --------------------------------------------------------------------------
\* io/reader.ts
\* --------------------------------------------------------------------------
\* createBlobReader(...).read(offset, length): blob.slice clamps the range to
\* the blob, so a read at or past the end, or with a length below 1, gives
\* an empty array
read(file, offset, length) ==
  SubSeq(file, offset + 1, Min(offset + length, Len(file)))

getSize(file) == Len(file)

\* one entry of the log of reads: the scanner that issued it and its range
ReadOf(by, offset, length) == [by |-> by, offset |-> offset, length |-> length]

\* --------------------------------------------------------------------------
\* core/scanner.ts: readElementHeader
\* --------------------------------------------------------------------------
HEADER_PROBE == 12

readElementHeader(file, offset) ==
  LET view == read(file, offset, HEADER_PROBE)
      i == readID(view, 0)
  IN  IF i.err # "none"
      THEN [err |-> i.err, id |-> 0, size |-> 0, headerSize |-> 0]
      ELSE LET s == readVint(view, i.length)
           IN  IF s.err # "none"
               THEN [err |-> s.err, id |-> 0, size |-> 0, headerSize |-> 0]
               ELSE [err |-> "none", id |-> i.value, size |-> s.value,
                     headerSize |-> i.length + s.length]

\* --------------------------------------------------------------------------
\* core/scanner.ts: the walkers of the header scanner.  Each returns err,
\* its accumulator and the log of reads extended by the reads it issued.
\* --------------------------------------------------------------------------
\* the children of one Seek entry
RECURSIVE parseSeek(_, _, _, _, _, _)
parseSeek(file, subCurrent, subEnd, seekId, seekPos, reads) ==
  IF ~(subCurrent < subEnd)
  THEN [err |-> "none", seekId |-> seekId, seekPos |-> seekPos, reads |-> reads]
  ELSE The({
       LET r1 == Append(reads, ReadOf("scanHeader", subCurrent, HEADER_PROBE))
           subContent == subCurrent + h.headerSize
           r2 == Append(r1, ReadOf("scanHeader", subContent, h.size))
           data == read(file, subContent, h.size)
           v == readUint(data, h.size)
       IN  IF h.err # "none"
           THEN [err |-> h.err, seekId |-> seekId, seekPos |-> seekPos, reads |-> r1]
           ELSE IF h.id = ID_SEEK_ID
           THEN LET vint == readVint(data, 0)
                IN  IF vint.err # "none"
                    THEN [err |-> vint.err, seekId |-> seekId,
                          seekPos |-> seekPos, reads |-> r2]
                    ELSE IF v.err # "none"
                    THEN [err |-> v.err, seekId |-> seekId,
                          seekPos |-> seekPos, reads |-> r2]
                    ELSE parseSeek(file, subCurrent + h.headerSize + h.size,
                                   subEnd, v.value, seekPos, r2)
           ELSE IF h.id = ID_SEEK_POSITION
           THEN IF v.err # "none"
                THEN [err |-> v.err, seekId |-> seekId, seekPos |-> seekPos,
                      reads |-> r2]
                ELSE parseSeek(file, subCurrent + h.headerSize + h.size,
                               subEnd, seekId, v.value, r2)
           ELSE parseSeek(file, subCurrent + h.headerSize + h.size, subEnd,
                          seekId, seekPos, r1)
       : h \in {readElementHeader(file, subCurrent)} })

\* parseSeekHead with the callback of scanHeader applied to every Seek entry:
\* cuesOffset = segmentStart + seekPos when seekId is the Cues ID
RECURSIVE parseSeekHead(_, _, _, _, _, _)
parseSeekHead(file, current, end, segmentStart, cuesOffset, reads) ==
  IF ~(current < end)
  THEN [err |-> "none", cuesOffset |-> cuesOffset, reads |-> reads]
  ELSE The({
       LET r1 == Append(reads, ReadOf("scanHeader", current, HEADER_PROBE))
           content == current + h.headerSize
       IN  IF h.err # "none"
           THEN [err |-> h.err, cuesOffset |-> cuesOffset, reads |-> r1]
           ELSE IF h.id = ID_SEEK
           THEN The({
                    IF s.err # "none"
                    THEN [err |-> s.err, cuesOffset |-> cuesOffset,
                          reads |-> s.reads]
                    ELSE parseSeekHead(file, current + h.headerSize + h.size,
                           end, segmentStart,
                           IF s.seekId = IDS_CUES
                           THEN <<segmentStart + s.seekPos>> ELSE cuesOffset,
                           s.reads)
                    : s \in {parseSeek(file, content, content + h.size, 0, 0,
                                       r1)} })
           ELSE parseSeekHead(file, current + h.headerSize + h.size, end,
                              segmentStart, cuesOffset, r1)
       : h \in {readElementHeader(file, current)} })

RECURSIVE parseInfo(_, _, _, _, _)
parseInfo(file, current, end, info, reads) ==
  IF ~(current < end)
  THEN [err |-> "none", info |-> info, reads |-> reads]
  ELSE The({
       LET r1 == Append(reads, ReadOf("scanHeader", current, HEADER_PROBE))
           content == current + h.headerSize
           r2 == Append(r1, ReadOf("scanHeader", content, h.size))
           data == read(file, content, h.size)
           next == current + h.headerSize + h.size
       IN  IF h.err # "none"
           THEN [err |-> h.err, info |-> info, reads |-> r1]
           ELSE IF h.id = IDS_TIMECODE_SCALE
           THEN LET v == readUint(data, h.size)
                IN  IF v.err # "none"
                    THEN [err |-> v.err, info |-> info, reads |-> r2]
                    ELSE parseInfo(file, next, end,
                           SetField(info, "timecodeScale", v.value), r2)
           ELSE IF h.id = IDS_DURATION
           THEN LET f == readFloat(data, 0, h.size)
                IN  IF f.err # "none"
                    THEN [err |-> f.err, info |-> info, reads |-> r2]
                    ELSE parseInfo(file, next, end,
                           SetField(info, "duration", f.value), r2)
           ELSE IF h.id = IDS_MUXING_APP
           THEN parseInfo(file, next, end,
                  SetField(info, "muxingApp", readString(data, 0, h.size)), r2)
           ELSE IF h.id = IDS_WRITING_APP
           THEN parseInfo(file, next, end,
                  SetField(info, "writingApp", readString(data, 0, h.size)), r2)
           ELSE parseInfo(file, next, end, info, r1)
       : h \in {readElementHeader(file, current)} })

RECURSIVE parseVideo(_, _, _, _, _)
parseVideo(file, current, end, video, reads) ==
  IF ~(current < end)
  THEN [err |-> "none", video |-> video, reads |-> reads]
  ELSE The({
       LET r1 == Append(reads, ReadOf("scanHeader", current, HEADER_PROBE))
           content == current + h.headerSize
           r2 == Append(r1, ReadOf("scanHeader", content, h.size))
           v == readUint(read(file, content, h.size), h.size)
           next == current + h.headerSize + h.size
       IN  IF h.err # "none"
           THEN [err |-> h.err, video |-> video, reads |-> r1]
           ELSE IF h.id \in {IDS_PIXEL_WIDTH, IDS_PIXEL_HEIGHT}
           THEN IF v.err # "none"
                THEN [err |-> v.err, video |-> video, reads |-> r2]
                ELSE parseVideo(file, next, end,
                       SetField(video,
                         IF h.id = IDS_PIXEL_WIDTH THEN "width" ELSE "height",
                         v.value), r2)
           ELSE parseVideo(file, next, end, video, r1)
       : h \in {readElementHeader(file, current)} })

RECURSIVE parseAudio(_, _, _, _, _)
parseAudio(file, current, end, audio, reads) ==
  IF ~(current < end)
  THEN [err |-> "none", audio |-> audio, reads |-> reads]
  ELSE The({
       LET r1 == Append(reads, ReadOf("scanHeader", current, HEADER_PROBE))
           content == current + h.headerSize
           r2 == Append(r1, ReadOf("scanHeader", content, h.size))
           data == read(file, content, h.size)
           next == current + h.headerSize + h.size
       IN  IF h.err # "none"
           THEN [err |-> h.err, audio |-> audio, reads |-> r1]
           ELSE IF h.id = IDS_SAMPLING_FREQ
           THEN LET f == readFloat(data, 0, h.size)
                IN  IF f.err # "none"
                    THEN [err |-> f.err, audio |-> audio, reads |-> r2]
                    ELSE parseAudio(file, next, end,
                           SetField(audio, "sampleRate", f.value), r2)
           ELSE IF h.id = IDS_CHANNELS
           THEN LET v == readUint(data, h.size)
                IN  IF v.err # "none"
                    THEN [err |-> v.err, audio |-> audio, reads |-> r2]
                    ELSE parseAudio(file, next, end,
                           SetField(audio, "channels", v.value), r2)
           ELSE parseAudio(file, next, end, audio, r1)
       : h \in {readElementHeader(file, current)} })

RECURSIVE parseTrackEntry(_, _, _, _, _)
parseTrackEntry(file, current, end, track, reads) ==
  IF ~(current < end)
  THEN [err |-> "none", track |-> track, reads |-> reads]
  ELSE The({
       LET r1 == Append(reads, ReadOf("scanHeader", current, HEADER_PROBE))
           content == current + h.headerSize
           r2 == Append(r1, ReadOf("scanHeader", content, h.size))
           data == read(file, content, h.size)
           next == current + h.headerSize + h.size
       IN  IF h.err # "none"
           THEN [err |-> h.err, track |-> track, reads |-> r1]
           ELSE IF h.id \in {IDS_TRACK_NUMBER, IDS_TRACK_TYPE}
           THEN LET v == readUint(data, h.size)
                IN  IF v.err # "none"
                    THEN [err |-> v.err, track |-> track, reads |-> r2]
                    ELSE parseTrackEntry(file, next, end,
                           SetField(track,
                             IF h.id = IDS_TRACK_NUMBER THEN "trackNumber"
                             ELSE "trackType", v.value), r2)
           ELSE IF h.id = IDS_CODEC_ID
           THEN parseTrackEntry(file, next, end,
                  SetField(track, "codecId", readString(data, 0, h.size)), r2)
           ELSE IF h.id = IDS_VIDEO
           THEN The({
                    IF v.err # "none"
                    THEN [err |-> v.err, track |-> track, reads |-> v.reads]
                    ELSE parseTrackEntry(file, next, end,
                           SetField(track, "video", v.video), v.reads)
                    : v \in {parseVideo(file, content, content + h.size,
                                        EmptyObject, r1)} })
           ELSE IF h.id = IDS_AUDIO
           THEN The({
                    IF a.err # "none"
                    THEN [err |-> a.err, track |-> track, reads |-> a.reads]
                    ELSE parseTrackEntry(file, next, end,
                           SetField(track, "audio", a.audio), a.reads)
                    : a \in {parseAudio(file, content, content + h.size,
                                        EmptyObject, r1)} })
           ELSE parseTrackEntry(file, next, end, track, r1)
       : h \in {readElementHeader(file, current)} })

\* faulty variant: parseTracks leaving its loop at a child that is no
\* TrackEntry
RECURSIVE parseTracks_stopsAtUnrecognized(_, _, _, _, _)
parseTracks_stopsAtUnrecognized(file, current, end, tracks, reads) ==
  IF ~(current < end)
  THEN [err |-> "none", tracks |-> tracks, reads |-> reads]
  ELSE The({
       LET r1 == Append(reads, ReadOf("scanHeader", current, HEADER_PROBE))
           content == current + h.headerSize
       IN  IF h.err # "none"
           THEN [err |-> h.err, tracks |-> tracks, reads |-> r1]
           ELSE IF h.id = IDS_TRACK_ENTRY
           THEN The({
                    IF t.err # "none"
                    THEN [err |-> t.err, tracks |-> tracks, reads |-> t.reads]
                    ELSE parseTracks_stopsAtUnrecognized(file,
                           current + h.headerSize + h.size, end,
                           Append(tracks, t.track), t.reads)
                    : t \in {parseTrackEntry(file, content, content + h.size,
                                             EmptyObject, r1)} })
           ELSE [err |-> "none", tracks |-> tracks, reads |-> r1]
       : h \in {readElementHeader(file, current)} })

\* faulty variant: parseTracks with one track object shared by all the entries
RECURSIVE parseTracks_sharedTrack(_, _, _, _, _)
parseTracks_sharedTrack(file, current, end, tracks, reads) ==
  IF ~(current < end)
  THEN [err |-> "none", tracks |-> tracks, reads |-> reads]
  ELSE The({
       LET r1 == Append(reads, ReadOf("scanHeader", current, HEADER_PROBE))
           content == current + h.headerSize
       IN  IF h.err # "none"
           THEN [err |-> h.err, tracks |-> tracks, reads |-> r1]
           ELSE IF h.id = IDS_TRACK_ENTRY
           THEN The({
                    IF t.err # "none"
                    THEN [err |-> t.err, tracks |-> tracks, reads |-> t.reads]
                    ELSE parseTracks_sharedTrack(file,
                           current + h.headerSize + h.size, end,
                           Append(tracks, t.track), t.reads)
                    : t \in {parseTrackEntry(file, content, content + h.size,
                               IF tracks = <<>> THEN EmptyObject
                               ELSE tracks[Len(tracks)], r1)} })
           ELSE parseTracks_sharedTrack(file, current + h.headerSize + h.size,
                                        end, tracks, r1)
       : h \in {readElementHeader(file, current)} })

RECURSIVE parseTracks(_, _, _, _, _)
parseTracks(file, current, end, tracks, reads) ==
  IF ~(current < end)
  THEN [err |-> "none", tracks |-> tracks, reads |-> reads]
  ELSE The({
       LET r1 == Append(reads, ReadOf("scanHeader", current, HEADER_PROBE))
           content == current + h.headerSize
       IN  IF h.err # "none"
           THEN [err |-> h.err, tracks |-> tracks, reads |-> r1]
           ELSE IF h.id = IDS_TRACK_ENTRY
           THEN The({
                    IF t.err # "none"
                    THEN [err |-> t.err, tracks |-> tracks, reads |-> t.reads]
                    ELSE parseTracks(file, current + h.headerSize + h.size,
                           end, Append(tracks, t.track), t.reads)
                    : t \in {parseTrackEntry(file, content, content + h.size,
                                             EmptyObject, r1)} })
           ELSE parseTracks(file, current + h.headerSize + h.size, end,
                            tracks, r1)
       : h \in {readElementHeader(file, current)} })

\* --------------------------------------------------------------------------
\* core/scanner.ts: scanHeader
\* --------------------------------------------------------------------------
\* the first loop: the content start of the Segment, -1 when no Segment
\* starts below scanLimit
RECURSIVE findSegment(_, _, _, _)
findSegment(file, offset, scanLimit, reads) ==
  IF ~(offset < scanLimit)
  THEN [err |-> "none", segmentStart |-> -1, reads |-> reads]
  ELSE The({
       LET r1 == Append(reads, ReadOf("scanHeader", offset, HEADER_PROBE))

       IN  IF h.err # "none"
           THEN [err |-> h.err, segmentStart |-> -1, reads |-> r1]
           ELSE IF h.id = IDS_SEGMENT
           THEN [err |-> "none", segmentStart |-> offset + h.headerSize,
                 reads |-> r1]
           ELSE findSegment(file, offset + h.headerSize + h.size, scanLimit, r1)
       : h \in {readElementHeader(file, offset)} })

\* faulty variant: the walk going on behind a Cluster
StopsWalk_never(id) == FALSE

\* else if (id === IDS.CLUSTER) break
StopsWalk(id) == id = IDS_CLUSTER

\* faulty variant: the walk going on behind an element of unknown size
EndsWalk_never(size) == FALSE

\* if (size === VINT_UNKNOWN_MARKER) break, after the dispatch
EndsWalk(size) == size = VINT_UNKNOWN_MARKER

\* the second loop: the children of the Segment
RECURSIVE scanSegmentChildren(_, _, _, _, _, _, _, _)
scanSegmentChildren(file, offset, scanLimit, segmentStart, info, tracks, cuesOffset, reads) ==
  IF ~(offset < scanLimit) \/ offset >= getSize(file)
  THEN [err |-> "none", info |-> info, tracks |-> tracks,
        cuesOffset |-> cuesOffset, reads |-> reads]
  ELSE The({
       LET r1 == Append(reads, ReadOf("scanHeader", offset, HEADER_PROBE))
           contentOffset == offset + h.headerSize
           nextElementOffset == contentOffset + h.size
           stop(i, t, c, r) == [err |-> "none", info |-> i, tracks |-> t,
                                cuesOffset |-> c, reads |-> r]
           fail(e, r) == [err |-> e, info |-> info, tracks |-> tracks,
                          cuesOffset |-> cuesOffset, reads |-> r]
           \* after the dispatch: an element of unknown size ends the walk
           continue(i, t, c, r) ==
             IF EndsWalk(h.size) THEN stop(i, t, c, r)
             ELSE scanSegmentChildren(file, nextElementOffset, scanLimit,
                                      segmentStart, i, t, c, r)
       IN  IF h.err # "none" THEN fail(h.err, r1)
           ELSE IF h.id = IDS_SEEK_HEAD
           THEN The({
                    IF s.err # "none" THEN fail(s.err, s.reads)
                    ELSE continue(info, tracks, s.cuesOffset, s.reads)
                    : s \in {parseSeekHead(file, contentOffset,
                               contentOffset + h.size, segmentStart,
                               cuesOffset, r1)} })
           ELSE IF h.id = IDS_INFO
           THEN The({
                    IF p.err # "none" THEN fail(p.err, p.reads)
                    ELSE continue(p.info, tracks, cuesOffset, p.reads)
                    : p \in {parseInfo(file, contentOffset,
                                       contentOffset + h.size, info, r1)} })
           ELSE IF h.id = IDS_TRACKS
           THEN The({
                    IF p.err # "none" THEN fail(p.err, p.reads)
                    ELSE continue(info, tracks \o p.tracks, cuesOffset, p.reads)
                    : p \in {parseTracks(file, contentOffset,
                                         contentOffset + h.size, <<>>, r1)} })
           ELSE IF StopsWalk(h.id)
           THEN stop(info, tracks, cuesOffset, r1)
           ELSE IF h.id = IDS_CUES
           THEN continue(info, tracks, <<offset>>, r1)
           ELSE continue(info, tracks, cuesOffset, r1)
       : h \in {readElementHeader(file, offset)} })

\* faulty variant: scanHeader going on without a Segment instead of throwing
scanHeader_noSegmentCheck(file) ==
  LET fileSize == getSize(file)
      scanLimit == Min(fileSize, HEADER_SCAN_LIMIT)
      failed(e, r) == [err |-> e, info |-> EmptyObject, tracks |-> <<>>,
                       cuesOffset |-> null, reads |-> r]
  IN  The({
      IF seg.err # "none" THEN failed(seg.err, seg.reads)
      ELSE scanSegmentChildren(file, Max(seg.segmentStart, 0), scanLimit,
             seg.segmentStart, [timecodeScale |-> DEFAULT_TIMECODE_SCALE],
             <<>>, null, seg.reads)
      : seg \in {findSegment(file, 0, scanLimit, <<>>)} })

scanHeader(file) ==
  LET fileSize == getSize(file)
      scanLimit == Min(fileSize, HEADER_SCAN_LIMIT)
      failed(e, r) == [err |-> e, info |-> EmptyObject, tracks |-> <<>>,
                       cuesOffset |-> null, reads |-> r]
  IN  The({
      IF seg.err # "none" THEN failed(seg.err, seg.reads)
      ELSE IF seg.segmentStart = -1 THEN failed("SegmentNotFound", seg.reads)
      ELSE scanSegmentChildren(file, seg.segmentStart, scanLimit,
             seg.segmentStart, [timecodeScale |-> DEFAULT_TIMECODE_SCALE],
             <<>>, null, seg.reads)
      : seg \in {findSegment(file, 0, scanLimit, <<>>)} })

\* --------------------------------------------------------------------------
\* core/scanner.ts: scanCues
\* --------------------------------------------------------------------------
RECURSIVE parseCuePoint(_, _, _, _, _)
parseCuePoint(file, current, end, time, reads) ==
  IF ~(current < end)
  THEN [err |-> "none", time |-> time, reads |-> reads]
  ELSE The({
    LET r1 == Append(reads, ReadOf("scanCues", current, HEADER_PROBE))
        content == current + h.headerSize
        r2 == Append(r1, ReadOf("scanCues", content, h.size))
        next == current + h.headerSize + h.size
    IN  IF h.err # "none"
        THEN [err |-> h.err, time |-> time, reads |-> r1]
        ELSE IF h.id = IDS_CUE_TIME
        THEN The({
          IF v.err # "none"
          THEN [err |-> v.err, time |-> time, reads |-> r2]
          ELSE parseCuePoint(file, next, end, v.value, r2)
          : v \in {readUint(read(file, content, h.size), h.size)} })
        ELSE parseCuePoint(file, next, end, time, r1)
    : h \in {readElementHeader(file, current)} })

\* faulty variant: the time of the last CuePoint read, as if Cues were sorted
LaterCueTime_last(maxTime, cueTime) == cueTime

\* the better of the running maximum and the time of one more CuePoint
LaterCueTime(maxTime, cueTime) == IF cueTime > maxTime THEN cueTime ELSE maxTime

\* faulty variant: the time of the last CuePoint taking the place of the
\* running maximum, as if the CuePoints were sorted
RECURSIVE scanCuePoints_lastWins(_, _, _, _, _)
scanCuePoints_lastWins(file, current, end, maxTime, reads) ==
  IF ~(current < end)
  THEN [err |-> "none", maxTime |-> maxTime, reads |-> reads]
  ELSE The({
    LET r1 == Append(reads, ReadOf("scanCues", current, HEADER_PROBE))
        content == current + h.headerSize
        next == current + h.headerSize + h.size
    IN  IF h.err # "none"
        THEN [err |-> h.err, maxTime |-> maxTime, reads |-> r1]
        ELSE IF h.id = IDS_CUE_POINT
        THEN The({
          IF c.err # "none"
          THEN [err |-> c.err, maxTime |-> maxTime, reads |-> c.reads]
          ELSE scanCuePoints_lastWins(file, next, end, c.time, c.reads)
          : c \in {parseCuePoint(file, content, content + h.size, 0, r1)} })
        ELSE scanCuePoints_lastWins(file, next, end, maxTime, r1)
    : h \in {readElementHeader(file, current)} })

RECURSIVE scanCuePoints(_, _, _, _, _)
scanCuePoints(file, current, end, maxTime, reads) ==
  IF ~(current < end)
  THEN [err |-> "none", maxTime |-> maxTime, reads |-> reads]
  ELSE The({
    LET r1 == Append(reads, ReadOf("scanCues", current, HEADER_PROBE))
        content == current + h.headerSize
        next == current + h.headerSize + h.size
    IN  IF h.err # "none"
        THEN [err |-> h.err, maxTime |-> maxTime, reads |-> r1]
        ELSE IF h.id = IDS_CUE_POINT
        THEN The({
          IF c.err # "none"
          THEN [err |-> c.err, maxTime |-> maxTime, reads |-> c.reads]
          ELSE scanCuePoints(file, next, end, LaterCueTime(maxTime, c.time),
                             c.reads)
          : c \in {parseCuePoint(file, content, content + h.size, 0, r1)} })
        ELSE scanCuePoints(file, next, end, maxTime, r1)
    : h \in {readElementHeader(file, current)} })

\* faulty variant: scanCues throwing when the element at cuesOffset is not Cues
scanCues_rejectsMismatch(file, cuesOffset, timecodeScale) ==
  The({
    LET r1 == <<ReadOf("scanCues", cuesOffset, HEADER_PROBE)>>
        content == cuesOffset + h.headerSize
    IN  IF h.err # "none" THEN [err |-> h.err, value |-> null, reads |-> r1]
        ELSE IF h.id # IDS_CUES
        THEN [err |-> "ElementNotFound", value |-> null, reads |-> r1]
        ELSE The({
          IF c.err # "none"
          THEN [err |-> c.err, value |-> null, reads |-> c.reads]
          ELSE [err |-> "none",
                value |-> MulDiv(<<c.maxTime, 1>>, timecodeScale,
                                 NANOS_PER_SECOND),
                reads |-> c.reads]
          : c \in {scanCuePoints(file, content, content + h.size, 0, r1)} })
    : h \in {readElementHeader(file, cuesOffset)} })

scanCues(file, cuesOffset, timecodeScale) ==
  The({
    LET r1 == <<ReadOf("scanCues", cuesOffset, HEADER_PROBE)>>
        content == cuesOffset + h.headerSize
    IN  IF h.err # "none" THEN [err |-> h.err, value |-> null, reads |-> r1]
        ELSE IF h.id # IDS_CUES
        THEN [err |-> "none", value |-> null, reads |-> r1]
        ELSE The({
          IF c.err # "none"
          THEN [err |-> c.err, value |-> null, reads |-> c.reads]
          ELSE [err |-> "none",
                value |-> MulDiv(<<c.maxTime, 1>>, timecodeScale,
                                 NANOS_PER_SECOND),
                reads |-> c.reads]
          : c \in {scanCuePoints(file, content, content + h.size, 0, r1)} })
    : h \in {readElementHeader(file, cuesOffset)} })

\* --------------------------------------------------------------------------
\* core/scanner.ts: scanTail.  The window is one DataView; a decode error is
\* caught where the code catches it.  The field oom records that a decode
\* left the range of encodings the model computes.
\* --------------------------------------------------------------------------
\* view.getUint32(i, false) === id, for an id below 2^31
Uint32Is(view, i, id) ==
  /\ getUint8(view, i) < 128
  /\ BEUint(view, i, 4, 0) = id

\* view.getInt16(o, false)
getInt16(view, o) ==
  LET u == (getUint8(view, o) * 256) + getUint8(view, o + 1)
  IN  IF u >= 32768 THEN u - 65536 ELSE u

\* the loop over the children of a BlockGroup that looks for its Block
RECURSIVE findBlock(_, _, _, _)
findBlock(view, length, bgCurrent, bgEnd) ==
  IF ~(bgCurrent < Min(bgEnd, length))
  THEN [err |-> "none", foundBlock |-> FALSE, blockDataStart |-> 0]
  ELSE The({ The({
       IF bgId.err # "none"
       THEN [err |-> bgId.err, foundBlock |-> FALSE, blockDataStart |-> 0]
       ELSE IF bgSize.err # "none"
       THEN [err |-> bgSize.err, foundBlock |-> FALSE, blockDataStart |-> 0]
       ELSE IF bgId.value = ID_BLOCK
       THEN [err |-> "none", foundBlock |-> TRUE,
             blockDataStart |-> bgCurrent + bgId.length + bgSize.length]
       ELSE findBlock(view, length,
                      bgCurrent + bgId.length + bgSize.length + bgSize.value,
                      bgEnd)
       : bgSize \in {readVint(view, bgCurrent + bgId.length)} })
       : bgId \in {readID(view, bgCurrent)} })

\* the loop over the children of one candidate Cluster after its Timecode
RECURSIVE scanBlocks(_, _, _, _, _, _, _)
scanBlocks(view, length, blockScanOffset, clusterEnd, currentClusterTimecode, maxTimecode, oom) ==
  IF ~(blockScanOffset < Min(clusterEnd, length))
  THEN [maxTimecode |-> maxTimecode, oom |-> oom]
  ELSE The({ The({
       LET elContentStart == blockScanOffset + elId.length + elSize.length
           caught(e) == [maxTimecode |-> maxTimecode,
                         oom |-> oom \/ e = "OutOfModel"]
           next(m) == scanBlocks(view, length, elContentStart + elSize.value,
                        clusterEnd, currentClusterTimecode, m, oom)
           \* the relative timecode of the block whose data starts at
           \* blockDataStart
           block(blockDataStart) ==
             The({
               LET timecodeOffset == blockDataStart + trackNum.length
                   absTimecode == currentClusterTimecode
                                    + getInt16(view, timecodeOffset)
               IN  IF trackNum.err # "none" THEN caught(trackNum.err)
                   ELSE IF timecodeOffset + 2 <= length
                             /\ absTimecode > maxTimecode
                   THEN next(absTimecode)
                   ELSE next(maxTimecode)
               : trackNum \in {readVint(view, blockDataStart)} })
       IN  IF elId.err # "none" THEN caught(elId.err)
           ELSE IF elSize.err # "none" THEN caught(elSize.err)
           ELSE IF elId.value = IDS_SIMPLE_BLOCK THEN block(elContentStart)
           ELSE IF elId.value = IDS_BLOCK_GROUP
           THEN The({
                    IF bg.err # "none" THEN caught(bg.err)
                    ELSE IF ~bg.foundBlock THEN next(maxTimecode)
                    ELSE block(bg.blockDataStart)
                    : bg \in {findBlock(view, length, elContentStart,
                                        elContentStart + elSize.value)} })
           ELSE next(maxTimecode)
       : elSize \in {readVint(view, blockScanOffset + elId.length)} })
       : elId \in {readID(view, blockScanOffset)} })

\* faulty variant: a decoding failure at a candidate discarding what the
\* candidates before it gave
scanCandidate_discardsOnFailure(view, length, i, maxTimecode, found, oom) ==
  The({ The({ The({
  LET clusterContentStart == i + 4 + size.length
      tcValStart == clusterContentStart + firstId.length + tcSize.length
      tcVal == BEUint(view, tcValStart,
                      Min(tcSize.value, length - tcValStart), 0)
      clusterEnd == IF size.value = VINT_UNKNOWN_MARKER THEN length
                    ELSE clusterContentStart + size.value
      caught(e) == IF e = "none"
                   THEN [maxTimecode |-> maxTimecode, found |-> found, oom |-> oom]
                   ELSE [maxTimecode |-> 0, found |-> FALSE,
                         oom |-> oom \/ e = "OutOfModel"]
  IN  IF size.err # "none" THEN caught(size.err)
      ELSE IF ~(clusterContentStart + 4 <= length) THEN caught("none")
      ELSE IF firstId.err # "none" THEN caught(firstId.err)
      ELSE IF firstId.value # IDS_TIMECODE THEN caught("none")
      ELSE IF tcSize.err # "none" THEN caught(tcSize.err)
      ELSE The({
           [maxTimecode |-> b.maxTimecode, found |-> TRUE, oom |-> b.oom]
           : b \in {scanBlocks(view, length, tcValStart + tcSize.value,
                               clusterEnd, tcVal, Max(tcVal, maxTimecode),
                               oom)} })
  : tcSize \in {readVint(view, i + 4 + size.length + firstId.length)} })
  : firstId \in {readID(view, i + 4 + size.length)} })
  : size \in {readVint(view, i + 4)} })

\* faulty variant: found set as soon as the signature matches
scanCandidate_foundAtSignature(view, length, i, maxTimecode, found, oom) ==
  The({ The({ The({
  LET clusterContentStart == i + 4 + size.length
      tcValStart == clusterContentStart + firstId.length + tcSize.length
      tcVal == BEUint(view, tcValStart,
                      Min(tcSize.value, length - tcValStart), 0)
      clusterEnd == IF size.value = VINT_UNKNOWN_MARKER THEN length
                    ELSE clusterContentStart + size.value
      caught(e) == [maxTimecode |-> maxTimecode, found |-> TRUE,
                    oom |-> oom \/ e = "OutOfModel"]
  IN  IF size.err # "none" THEN caught(size.err)
      ELSE IF ~(clusterContentStart + 4 <= length) THEN caught("none")
      ELSE IF firstId.err # "none" THEN caught(firstId.err)
      ELSE IF firstId.value # IDS_TIMECODE THEN caught("none")
      ELSE IF tcSize.err # "none" THEN caught(tcSize.err)
      ELSE The({
           [maxTimecode |-> b.maxTimecode, found |-> TRUE, oom |-> b.oom]
           : b \in {scanBlocks(view, length, tcValStart + tcSize.value,
                               clusterEnd, tcVal, Max(tcVal, maxTimecode),
                               oom)} })
  : tcSize \in {readVint(view, i + 4 + size.length + firstId.length)} })
  : firstId \in {readID(view, i + 4 + size.length)} })
  : size \in {readVint(view, i + 4)} })

\* the body of the try block for the candidate whose signature is at i
scanCandidate(view, length, i, maxTimecode, found, oom) ==
  The({ The({ The({
  LET clusterContentStart == i + 4 + size.length
      tcValStart == clusterContentStart + firstId.length + tcSize.length
      tcVal == BEUint(view, tcValStart,
                      Min(tcSize.value, length - tcValStart), 0)
      clusterEnd == IF size.value = VINT_UNKNOWN_MARKER THEN length
                    ELSE clusterContentStart + size.value
      caught(e) == [maxTimecode |-> maxTimecode, found |-> found,
                    oom |-> oom \/ e = "OutOfModel"]
  IN  IF size.err # "none" THEN caught(size.err)
      ELSE IF ~(clusterContentStart + 4 <= length) THEN caught("none")
      ELSE IF firstId.err # "none" THEN caught(firstId.err)
      ELSE IF firstId.value # IDS_TIMECODE THEN caught("none")
      ELSE IF tcSize.err # "none" THEN caught(tcSize.err)
      ELSE The({
           [maxTimecode |-> b.maxTimecode, found |-> TRUE, oom |-> b.oom]
           : b \in {scanBlocks(view, length, tcValStart + tcSize.value,
                               clusterEnd, tcVal, Max(tcVal, maxTimecode),
                               oom)} })
  : tcSize \in {readVint(view, i + 4 + size.length + firstId.length)} })
  : firstId \in {readID(view, i + 4 + size.length)} })
  : size \in {readVint(view, i + 4)} })

\* for (let i = 0; i < length - 4; i++): the iterations whose 4 bytes are
\* not the Cluster ID change nothing, so the loop goes from one position
\* that holds the signature to the next
RECURSIVE scanWindow(_, _, _, _, _, _)
scanWindow(view, length, i, maxTimecode, found, oom) ==
  The({
    IF signatures = {}
    THEN [maxTimecode |-> maxTimecode, found |-> found, oom |-> oom]
    ELSE The({
         scanWindow(view, length, c.at + 1, c.maxTimecode, c.found, c.oom)
         : c \in {[at |-> j] @@ scanCandidate(view, length, j, maxTimecode,
                                              found, oom) :
                  j \in {m \in signatures : \A n \in signatures : m <= n}} })
    : signatures \in
        {{j \in i..(length - 5) : Uint32Is(view, j, IDS_CLUSTER)}} })

scanTail(file, fileSize, timecodeScale) ==
  LET startOffset == Max(0, fileSize - SCAN_SIZE)
      length == fileSize - startOffset
  IN  IF length <= 0 THEN [value |-> null, reads |-> <<>>, oom |-> FALSE]
      ELSE The({
           [value |-> IF ~w.found THEN null
                      ELSE MulDiv(<<w.maxTimecode, 1>>, timecodeScale,
                                  NANOS_PER_SECOND),
            reads |-> <<ReadOf("scanTail", startOffset, length)>>,
            oom |-> w.oom]
           : w \in {scanWindow(read(file, startOffset, length), length, 0, 0,
                               FALSE, FALSE)} })

\* --------------------------------------------------------------------------
\* test/webm-builder.ts: the fixture builder the tests make their files with
\* --------------------------------------------------------------------------
\* the n low bytes of val, big-endian (DataView.setUint16 / setUint32, and
\* the loop of writeVint)
RECURSIVE BEBytes(_, _)
BEBytes(val, n) ==
  IF n = 0 THEN <<>> ELSE Append(BEBytes(val \div 256, n - 1), val % 256)

\* byte | marker, marker being a power of two
OrBit(byte, marker) ==
  IF (byte \div marker) % 2 = 1 THEN byte ELSE byte + marker

\* writeVint(value) with the length chosen by the value
writeVint(value) ==
  LET length == IF value < 128 THEN 1
                ELSE IF value < 16384 THEN 2
                ELSE IF value < 2097152 THEN 3
                ELSE IF value < 268435456 THEN 4
                ELSE 5
      buffer == BEBytes(value, length)
  IN  <<OrBit(buffer[1], 2 ^ (8 - length))>> \o Tail(buffer)

writeID(id) ==
  IF id > 16777215 THEN BEBytes(id, 4)
  ELSE IF id > 65535 THEN BEBytes(id, 3)
  ELSE IF id > 255 THEN BEBytes(id, 2)
  ELSE <<id>>

createElement(id, content) == writeID(id) \o writeVint(Len(content)) \o content

RECURSIVE Log2(_)
Log2(d) == IF d < 2 THEN 0 ELSE 1 + Log2(d \div 2)

\* DataView.setFloat64(0, d, false) for an integer d >= 0: sign 0, exponent
\* e + 1023 over 11 bits, then the 52 bits of the fraction
setFloat64(d) ==
  LET e == Log2(d)
      f == d - (2 ^ e)
      bit(j) == IF j <= e THEN (f \div (2 ^ (e - j))) % 2 ELSE 0
      bits(from, n) == LET S[t \in 0..n] ==
                             IF t = 0 THEN 0 ELSE (2 * S[t - 1]) + bit(from + t)
                       IN  S[n]
      ex == e + 1023
  IN  IF d = 0 THEN <<0, 0, 0, 0, 0, 0, 0, 0>>
      ELSE <<ex \div 16, ((ex % 16) * 16) + bits(0, 4)>>
             \o [k \in 1..6 |-> bits(4 + (8 * (k - 1)), 8)]

\* createInfo; an absent option is <<>>, a present one <<value>>
createInfo(info) ==
  LET scale == IF info.timecodeScale = <<>> THEN <<>>
               ELSE createElement(IDS_TIMECODE_SCALE,
                      IF info.timecodeScale[1] = 1000000 THEN <<15, 66, 64>>
                      ELSE BEBytes(info.timecodeScale[1], 4))
      duration == IF info.duration = <<>> THEN <<>>
                  ELSE createElement(IDS_DURATION, setFloat64(info.duration[1]))
  IN  createElement(IDS_INFO, scale \o duration)

\* concat(arrays): the byte arrays one after the other
RECURSIVE concat(_)
concat(arrays) ==
  IF Len(arrays) = 0 THEN <<>>
  ELSE concat(SubSeq(arrays, 1, Len(arrays) - 1)) \o arrays[Len(arrays)]

\* one TrackEntry.  The builder writes TrackNumber, TrackType and CodecID;
\* a track of the model may also leave the CodecID out (codecId = <<>>,
\* against <<string>>) and carry a Video element (video = <<width, height>>)
\* or an Audio element (audio = <<sampleRate, channels>>).
createTrackEntry(track) ==
  createElement(IDS_TRACK_ENTRY,
    createElement(IDS_TRACK_NUMBER, <<track.number>>)
    \o createElement(IDS_TRACK_TYPE, <<track.type>>)
    \o (IF track.codecId = <<>> THEN <<>>
        ELSE createElement(IDS_CODEC_ID, track.codecId[1]))
    \o (IF track.video = <<>> THEN <<>>
        ELSE createElement(IDS_VIDEO,
               createElement(IDS_PIXEL_WIDTH, BEBytes(track.video[1], 2))
               \o createElement(IDS_PIXEL_HEIGHT, BEBytes(track.video[2], 2))))
    \o (IF track.audio = <<>> THEN <<>>
        ELSE createElement(IDS_AUDIO,
               createElement(IDS_SAMPLING_FREQ, setFloat64(track.audio[1]))
               \o createElement(IDS_CHANNELS, <<track.audio[2]>>))))

createTracks(tracksList) ==
  createElement(IDS_TRACKS, concat([i \in 1..Len(tracksList) |-> createTrackEntry(tracksList[i])]))

createCuePoint(time) ==
  createElement(IDS_CUE_POINT,
    createElement(IDS_CUE_TIME,
      IF time < 65536 THEN BEBytes(time, 2) ELSE BEBytes(time, 4)))

createCues(cuesList) ==
  createElement(IDS_CUES,
    concat([i \in 1..Len(cuesList) |-> createCuePoint(cuesList[i])]))

\* createCluster: a Timecode, then size bytes of 0xAA.  The builder writes
\* the timecode over 2 bytes (4 from 0x10000 on); a cluster of the model
\* may ask for the shortest encoding, 1 byte, with tcBytes = 1, as the
\* scanner's own tests write it.
createCluster(cluster) ==
  createElement(IDS_CLUSTER,
    createElement(IDS_TIMECODE,
      IF cluster.tcBytes = 1 THEN <<cluster.timecode>>
      ELSE IF cluster.timecode < 65536 THEN BEBytes(cluster.timecode, 2)
      ELSE BEBytes(cluster.timecode, 4))
    \o [i \in 1..cluster.size |-> 170])

createSeekHead(cuesPosition) ==
  createElement(IDS_SEEK_HEAD,
    createElement(ID_SEEK,
      createElement(ID_SEEK_ID, <<28, 83, 187, 107>>)
      \o createElement(ID_SEEK_POSITION, BEBytes(cuesPosition, 4))))

\* The elements buildWebm puts in the Segment.  options.info and
\* options.tracks are <<>> when the option is left out and <<value>> when it
\* is given.  options.seekTo is an option of the model: "cues" makes the
\* SeekHead point at the Cues element, as the builder does, and "clusters"
\* at the first Cluster, a stale entry.
SegmentParts(options) ==
  LET info == IF options.info = <<>> THEN <<>> ELSE createInfo(options.info[1])
      tracks == IF options.tracks = <<>> THEN <<>>
                ELSE createTracks(options.tracks[1])
      clusters == concat([i \in 1..Len(options.clusters) |->
                           createCluster(options.clusters[i])])
      cuesElement == IF Len(options.cues) > 0 THEN createCues(options.cues)
                     ELSE <<>>
      \* the builder sizes the SeekHead with a dummy position; the position
      \* always takes 4 bytes
      seekHeadSize == Len(createSeekHead(0))
      cuesPosition == IF options.seekTo = "cues"
                      THEN seekHeadSize + Len(info \o tracks \o clusters)
                      ELSE seekHeadSize + Len(info \o tracks)
  IN  IF options.seekHead /\ cuesElement # <<>>
      THEN <<createSeekHead(cuesPosition), info, tracks, clusters, cuesElement>>
      ELSE <<info, tracks, cuesElement, clusters>>

buildWebm(options) ==
  createElement(IDS_SEGMENT,
    concat(SegmentParts(options)))

\* the byte of the junk the integration test appends
JUNK_BYTE == 255

\* the file of one input: the bytes before the Segment (an EBML header, or
\* bytes that are no element at all), the Segment buildWebm makes unless the
\* input has none, the appended junk, and the whole cut short by input.cut
\* bytes as generate_assets.sh does with head -c
FileOf(input) ==
  LET whole == input.prefix
               \o (IF input.segment THEN buildWebm(input.options) ELSE <<>>)
               \o [i \in 1..input.junk |-> JUNK_BYTE]
  IN  SubSeq(whole, 1, Max(Len(whole) - input.cut, 0))

\* --------------------------------------------------------------------------
\* index.ts: parseWebm
\* --------------------------------------------------------------------------
\* "video/webm", `; codecs="`, `, ` and `"` as code points
VIDEO_WEBM == <<118, 105, 100, 101, 111, 47, 119, 101, 98, 109>>

CODECS_OPEN == <<59, 32, 99, 111, 100, 101, 99, 115, 61, 34>>

CODECS_SEPARATOR == <<44, 32>>

CODECS_CLOSE == <<34>>

\* if (track.codecId): the field is there and is not the empty string
DeclaresCodec(track) == Has(track, "codecId") /\ track.codecId # <<>>

\* faulty variant: the codec IDs of the tracks, each distinct ID once
RECURSIVE collectCodecs_unique(_)
collectCodecs_unique(tracks) ==
  IF tracks = <<>> THEN <<>>
  ELSE LET rest == collectCodecs_unique(Tail(tracks))
       IN  IF DeclaresCodec(Head(tracks))
           THEN <<Head(tracks).codecId>>
                \o SelectSeq(rest, LAMBDA c : c # Head(tracks).codecId)
           ELSE rest

\* the loop that collects the codec IDs of the tracks
RECURSIVE collectCodecs(_)
collectCodecs(tracks) ==
  IF tracks = <<>> THEN <<>>
  ELSE (IF DeclaresCodec(Head(tracks)) THEN <<Head(tracks).codecId>> ELSE <<>>)
       \o collectCodecs(Tail(tracks))

\* codecs.join(", ")
RECURSIVE join(_, _)
join(strings, separator) ==
  IF strings = <<>> THEN <<>>
  ELSE IF Len(strings) = 1 THEN strings[1]
  ELSE strings[1] \o separator \o join(Tail(strings), separator)

mimeTypeOf(tracks) ==
  LET codecs == collectCodecs(tracks)
  IN  IF Len(codecs) > 0
      THEN VIDEO_WEBM \o CODECS_OPEN \o join(codecs, CODECS_SEPARATOR)
           \o CODECS_CLOSE
      ELSE VIDEO_WEBM

\* the first tier: info.duration ? (info.duration * timecodeScale) / 1e9 : null
infoDuration(info) ==
  IF Has(info, "duration") /\ TruthyNumber(info.duration)
  THEN MulDiv(info.duration, info.timecodeScale, NANOS_PER_SECOND)
  ELSE null

\* The state of one parseWebm call (input .. oom), and calls: the states of
\* the parseWebm calls that run side by side in the specification SpecCalls
VARIABLES input, file, pc, headerResult, resultBase, duration, result, error,
          reads, oom, calls

vars == <<input, file, pc, headerResult, resultBase, duration, result, error,
          reads, oom, calls>>

\* const headerResult = await scanHeader(reader), then the lines up to the
\* first tier; an exception of scanHeader rejects the promise of parseWebm
ScanHeaderStep ==
  /\ pc = "scanHeader"
  /\ \E h \in {scanHeader(file)} :
         /\ reads' = reads \o h.reads
         /\ IF h.err # "none"
            THEN /\ pc' = "rejected"
                 /\ error' = h.err
                 /\ UNCHANGED <<headerResult, resultBase, duration>>
            ELSE /\ pc' = "cues"
                 /\ headerResult' = [info |-> h.info, tracks |-> h.tracks,
                                     cuesOffset |-> h.cuesOffset]
                 /\ resultBase' = [duration |-> null,
                                   fileSize |-> getSize(file),
                                   mimeType |-> mimeTypeOf(h.tracks),
                                   info |-> h.info,
                                   tracks |-> h.tracks]
                 /\ duration' = infoDuration(h.info)
                 /\ UNCHANGED error
  /\ UNCHANGED <<input, file, result, oom, calls>>

\* faulty variant: a failure of the Cues scanner taken for 'not found'
CuesTier_fallsThrough ==
  /\ pc = "cues"
  /\ IF duration = null /\ headerResult.cuesOffset # null
     THEN \E c \in {scanCues(file, headerResult.cuesOffset[1],
                              headerResult.info.timecodeScale)} :
              /\ reads' = reads \o c.reads
              /\ IF c.err # "none"
                 THEN /\ pc' = "tail"
                      /\ UNCHANGED <<duration, error>>
                 ELSE /\ pc' = "tail"
                      /\ duration' = c.value
                      /\ UNCHANGED error
     ELSE /\ pc' = "tail"
          /\ UNCHANGED <<duration, error, reads>>
  /\ UNCHANGED <<input, file, headerResult, resultBase, result, oom, calls>>

\* if (duration === null && headerResult.cuesOffset !== null)
\*   duration = await scanCues(...)
CuesTier ==
  /\ pc = "cues"
  /\ IF duration = null /\ headerResult.cuesOffset # null
     THEN \E c \in {scanCues(file, headerResult.cuesOffset[1],
                              headerResult.info.timecodeScale)} :
              /\ reads' = reads \o c.reads
              /\ IF c.err # "none"
                 THEN /\ pc' = "rejected"
                      /\ error' = c.err
                      /\ UNCHANGED duration
                 ELSE /\ pc' = "tail"
                      /\ duration' = c.value
                      /\ UNCHANGED error
     ELSE /\ pc' = "tail"
          /\ UNCHANGED <<duration, error, reads>>
  /\ UNCHANGED <<input, file, headerResult, resultBase, result, oom, calls>>

\* faulty variant: the tail tier running whenever the duration is falsy
TailTier_whenFalsy ==
  /\ pc = "tail"
  /\ IF duration = null \/ ~TruthyNumber(duration)
     THEN \E t \in {scanTail(file, resultBase.fileSize,
                              headerResult.info.timecodeScale)} :
              /\ reads' = reads \o t.reads
              /\ duration' = t.value
              /\ oom' = t.oom
     ELSE UNCHANGED <<duration, reads, oom>>
  /\ pc' = "return"
  /\ UNCHANGED <<input, file, headerResult, resultBase, result, error, calls>>

\* if (duration === null) duration = await scanTail(...)
TailTier ==
  /\ pc = "tail"
  /\ IF duration = null
     THEN \E t \in {scanTail(file, resultBase.fileSize,
                              headerResult.info.timecodeScale)} :
              /\ reads' = reads \o t.reads
              /\ duration' = t.value
              /\ oom' = t.oom
     ELSE UNCHANGED <<duration, reads, oom>>
  /\ pc' = "return"
  /\ UNCHANGED <<input, file, headerResult, resultBase, result, error, calls>>

\* faulty variant: the return throwing when no tier resolved a duration
Return_throwsOnNull ==
  /\ pc = "return"
  /\ IF duration = null
     THEN /\ pc' = "rejected"
          /\ error' = "DurationNotFound"
          /\ UNCHANGED result
     ELSE /\ result' = [resultBase EXCEPT !.duration = duration]
          /\ pc' = "done"
          /\ UNCHANGED error
  /\ UNCHANGED <<input, file, headerResult, resultBase, duration, reads, oom,
                 calls>>

\* return { ...resultBase, duration }
Return ==
  /\ pc = "return"
  /\ result' = [resultBase EXCEPT !.duration = duration]
  /\ pc' = "done"
  /\ UNCHANGED <<input, file, headerResult, resultBase, duration, error,
                 reads, oom, calls>>

\* --------------------------------------------------------------------------
\* The files the model parses
\* --------------------------------------------------------------------------
V_VP9 == <<86, 95, 86, 80, 57>>

A_OPUS == <<65, 95, 79, 80, 85, 83>>

Track(number, type, codecId, video, audio) ==
  [number |-> number, type |-> type, codecId |-> codecId, video |-> video,
   audio |-> audio]

VideoTrack == Track(1, 1, <<V_VP9>>, <<>>, <<>>)

\* the values of options.tracks: left out, empty, one video track, the video
\* and audio tracks of a standard file in both orders, tracks without a
\* CodecID or with an empty one, and two tracks with the same codec
TrackOptions ==
  { <<>>,
    << <<>> >>,
    << <<VideoTrack>> >>,
    << <<Track(1, 1, <<V_VP9>>, <<1920, 1080>>, <<>>),
         Track(2, 2, <<A_OPUS>>, <<>>, <<48000, 2>>)>> >>,
    << <<Track(1, 2, <<A_OPUS>>, <<>>, <<48000, 2>>),
         Track(2, 1, <<V_VP9>>, <<1920, 1080>>, <<>>)>> >>,
    << <<Track(1, 1, <<>>, <<>>, <<>>)>> >>,
    << <<Track(1, 1, <<>>, <<640, 480>>, <<>>),
         Track(2, 2, <<A_OPUS>>, <<>>, <<>>)>> >>,
    << <<Track(1, 1, << <<>> >>, <<>>, <<>>),
         Track(2, 1, <<V_VP9>>, <<>>, <<>>)>> >>,
    << <<VideoTrack, Track(2, 1, <<V_VP9>>, <<>>, <<>>)>> >> }

Cluster(timecode, tcBytes, size) ==
  [timecode |-> timecode, tcBytes |-> tcBytes, size |-> size]

\* the clusters of the given timecodes, all written the same way
ClustersOf(timecodes, tcBytes, size) ==
  [i \in 1..Len(timecodes) |-> Cluster(timecodes[i], tcBytes, size)]

StandardClusters == ClustersOf(<<0, 3, 9>>, 2, 0)

ClusterOptions ==
  {<<>>}
  \cup { ClustersOf(t, b, z) :
           t \in {<<0>>, <<0, 3, 9>>, <<9, 3>>}, b \in {1, 2}, z \in {0, 2} }

\* how a file carries its Cues: not at all, before the Clusters without a
\* SeekHead, after the Clusters with a SeekHead that points at them, or
\* after the Clusters with a SeekHead that points at the first Cluster
CuesModes == {"none", "direct", "seek", "stale"}

Options(info, tracks, clusters, cues, mode) ==
  [info |-> info, tracks |-> tracks, clusters |-> clusters,
   cues |-> IF mode = "none" THEN <<>> ELSE cues,
   seekHead |-> mode \in {"seek", "stale"},
   seekTo |-> IF mode = "stale" THEN "clusters" ELSE "cues"]

Info(timecodeScale, dur) == <<[timecodeScale |-> timecodeScale, duration |-> dur]>>

Input(prefix, segment, options, junk, cut) ==
  [prefix |-> prefix, segment |-> segment, options |-> options, junk |-> junk,
   cut |-> cut]

NoOptions == Options(<<>>, <<>>, <<>>, <<>>, "none")

\* an EBML header element holding the DocType "webm"
EbmlHeader == createElement(IDS_EBML, createElement(17026, <<119, 101, 98, 109>>))

TimecodeScales == {<<>>, <<1000000>>, <<2000000>>}

Durations == {<<>>, <<0>>, <<5>>}

\* the three tiers against each other
TierInputs ==
  { Input(<<>>, TRUE,
          Options(Info(s, d), <<<<VideoTrack>>>>, c, <<2, 1>>, m), j, 0) :
      s \in TimecodeScales, d \in Durations, c \in {<<>>, StandardClusters},
      m \in CuesModes, j \in {0, MaxJunk} }

\* the Cues tier over several lists of CueTimes
CuesInputs ==
  { Input(<<>>, TRUE,
          Options(Info(<<>>, <<>>), <<<<VideoTrack>>>>, StandardClusters, q, m),
          0, 0) :
      q \in {<<0>>, <<2>>, <<1, 2>>, <<7, 4, 1>>}, m \in {"direct", "seek"} }

\* the tail tier over several lists of Clusters
TailInputs ==
  { Input(p, TRUE, Options(i, <<<<VideoTrack>>>>, c, <<>>, "none"), j, 0) :
      p \in {<<>>, EbmlHeader}, i \in {<<>>, Info(<<>>, <<>>)},
      c \in ClusterOptions, j \in {0, MaxJunk} }

\* the track lists
TrackInputs ==
  { Input(<<>>, TRUE, Options(Info(<<>>, d), t, StandardClusters, <<>>, "none"),
          0, 0) :
      t \in TrackOptions, d \in {<<>>, <<5>>} }

\* files cut short after their first Cluster begins
CutInputs ==
  { Input(<<>>, TRUE,
          Options(Info(<<1000000>>, d), <<<<VideoTrack>>>>, StandardClusters,
                  <<9>>, m), 0, k) :
      d \in {<<>>, <<5>>}, m \in {"none", "seek"}, k \in 1..MaxCut }

\* files in which no Segment starts
NoSegmentInputs ==
  { Input(p, FALSE, NoOptions, j, k) :
      p \in {<<>>, <<0>>, <<66>>, EbmlHeader,
             createElement(IDS_INFO, <<>>) \o EbmlHeader},
      j \in {0, MaxJunk}, k \in {0, 1} }

Inputs == TierInputs \cup CuesInputs \cup TailInputs \cup TrackInputs
          \cup CutInputs \cup NoSegmentInputs

\* --------------------------------------------------------------------------
\* The specification: parseWebm is called on one of the files
\* --------------------------------------------------------------------------
Init ==
  /\ input \in Inputs
  /\ file = FileOf(input)
  /\ pc = "scanHeader"
  /\ headerResult = EmptyObject
  /\ resultBase = EmptyObject
  /\ duration = null
  /\ result = EmptyObject
  /\ error = "none"
  /\ reads = <<>>
  /\ oom = FALSE
  /\ calls = <<>>

Next == ScanHeaderStep \/ CuesTier \/ TailTier \/ Return

Spec == Init /\ [][Next]_vars

\* every decode stayed within the encodings the model computes
ModelInRange == error # "OutOfModel" /\ ~oom

\* --------------------------------------------------------------------------
\* What a file was built to hold, read off the input and not off the parse
\* --------------------------------------------------------------------------
Finished == pc \in {"done", "rejected"}

NoReadBy(scanner) == \A i \in 1..Len(reads) : reads[i].by # scanner

ReadsBy(scanner) == {i \in 1..Len(reads) : reads[i].by = scanner}

\* the Info element the file holds, <<>> when it holds none
DeclaredInfo ==
  IF input.segment /\ input.options.info # <<>> THEN input.options.info
  ELSE <<>>

\* the Duration the Info element declares, <<>> when it declares none
DeclaredDuration ==
  IF DeclaredInfo = <<>> THEN <<>> ELSE DeclaredInfo[1].duration

\* the TimecodeScale in force: the declared one, or the default
DeclaredScale ==
  IF DeclaredInfo = <<>> \/ DeclaredInfo[1].timecodeScale = <<>>
  THEN DEFAULT_TIMECODE_SCALE
  ELSE DeclaredInfo[1].timecodeScale[1]

RECURSIVE MaxOf(_)
MaxOf(numbers) ==
  IF numbers = <<>> THEN 0 ELSE Max(Head(numbers), MaxOf(Tail(numbers)))

Timecodes(clusters) == [i \in 1..Len(clusters) |-> clusters[i].timecode]

\* ticks as seconds and as milliseconds
Seconds(ticks) == MulDiv(<<ticks, 1>>, DeclaredScale, NANOS_PER_SECOND)

MilliSeconds(ticks) == MulDiv(<<ticks, 1>>, DeclaredScale, 1000000)

\* the offset at which the content of the Segment starts
SegmentStartOf ==
  Len(input.prefix) + Len(buildWebm(input.options))
    - Len(concat(SegmentParts(input.options)))

\* the offset at which the first Cluster starts (the end of the Segment when
\* there is no Cluster, or when the Cues come last): whatever the layout,
\* three parts come before the Clusters
FirstClusterStartOf ==
  LET parts == SegmentParts(input.options)
  IN  SegmentStartOf + Len(parts[1] \o parts[2] \o parts[3])

\* the file holds everything that comes before its first Cluster
HeaderIntact ==
  /\ input.segment
  /\ (input.cut = 0 \/ Len(file) >= FirstClusterStartOf)

\* C1  Tier precedence: whenever the Info element declares a Duration, the
\* parse returns the duration Duration * timecodeScale and neither the Cues
\* scanner nor the tail scanner has issued a read.
C1_InfoDurationWins ==
  (Finished /\ HeaderIntact /\ DeclaredDuration # <<>>)
    => /\ pc = "done"
       /\ result.duration = Seconds(DeclaredDuration[1])
       /\ NoReadBy("scanCues")
       /\ NoReadBy("scanTail")

\* C2  The result carries the resolved duration in durationMilliSeconds, in
\* milliseconds (ticks * timecodeScale / 1,000,000), and
\* info.durationMilliSeconds is defined exactly when Info declares a
\* Duration.
C2_DurationInMilliSeconds ==
  (pc = "done" /\ HeaderIntact
     /\ (DeclaredDuration = <<>> \/ DeclaredDuration[1] # 0))
    => /\ DeclaredDuration # <<>>
            => /\ Has(result, "durationMilliSeconds")
               /\ result.durationMilliSeconds
                    = MilliSeconds(DeclaredDuration[1])
       /\ Has(result.info, "durationMilliSeconds") <=> DeclaredDuration # <<>>

\* the offset at which the file was built to hold its Cues element, and the
\* offset just past that element
CuesStartOf ==
  LET parts == SegmentParts(input.options)
      before == IF input.options.seekHead
                THEN parts[1] \o parts[2] \o parts[3] \o parts[4]
                ELSE parts[1] \o parts[2]
  IN  SegmentStartOf + Len(before)

CuesEndOf == CuesStartOf + Len(createCues(input.options.cues))

\* the header scan resolved cuesOffset to a whole Cues element of the file
CuesResolved ==
  /\ input.segment
  /\ input.options.cues # <<>>
  /\ pc \notin {"scanHeader"}
  /\ Has(headerResult, "cuesOffset")
  /\ headerResult.cuesOffset = <<CuesStartOf>>
  /\ CuesEndOf <= Len(file)

\* C3  Fallback to Cues: when Info declares no Duration and the header scan
\* resolved cuesOffset (through the SeekHead or by meeting Cues at top
\* level) to a Cues element, the parse returns the largest CueTime times
\* timecodeScale and the tail scanner has issued no read.
C3_CuesFallback ==
  (Finished /\ DeclaredDuration = <<>> /\ CuesResolved)
    => /\ pc = "done"
       /\ result.duration = Seconds(MaxOf(input.options.cues))
       /\ NoReadBy("scanTail")

\* a parse that took its duration from a Cues element reached through the
\* SeekHead, the largest CueTime being neither the last CueTime nor the
\* largest Cluster timecode
C3_Witness ==
  /\ pc = "done"
  /\ DeclaredDuration = <<>>
  /\ CuesResolved
  /\ input.options.seekHead
  /\ input.options.cues = <<7, 4, 1>>
  /\ input.options.clusters = StandardClusters
  /\ result.duration = <<7, 1000>>

\* a parse that took its duration from a Cues element met at top level
C3_WitnessDirect ==
  /\ pc = "done"
  /\ DeclaredDuration = <<>>
  /\ CuesResolved
  /\ ~input.options.seekHead
  /\ result.duration = Seconds(MaxOf(input.options.cues))

\* a <= b for rationals with positive denominators
RatLeq(a, b) == a[1] * b[2] <= b[1] * a[2]

\* the duration the file was built to have, from the first tier that has
\* one: the declared Duration, the largest CueTime, the largest Cluster
\* timecode
IntendedDuration ==
  IF DeclaredDuration # <<>> THEN Seconds(DeclaredDuration[1])
  ELSE IF input.options.cues # <<>> THEN Seconds(MaxOf(input.options.cues))
  ELSE IF input.options.clusters # <<>>
  THEN Seconds(MaxOf(Timecodes(input.options.clusters)))
  ELSE null

\* a whole file with Clusters and neither a Duration nor Cues
TailOnly ==
  /\ input.segment
  /\ input.cut = 0
  /\ DeclaredDuration = <<>>
  /\ input.options.cues = <<>>
  /\ input.options.clusters # <<>>

\* the file of the input without its junk
FileWithoutJunk == FileOf([input EXCEPT !.junk = 0])

\* C4  Tail resync: for a file with no Info.Duration and no Cues whose
\* Clusters each start with a Timecode, the parse returns the largest
\* Cluster timecode times timecodeScale, and the junk appended after the
\* last Cluster does not change that result.
C4_TailResync ==
  (Finished /\ TailOnly)
    => /\ pc = "done"
       /\ result.duration
            = Seconds(MaxOf(Timecodes(input.options.clusters)))
       /\ result.duration
            = scanTail(FileWithoutJunk, Len(FileWithoutJunk),
                       DeclaredScale).value

\* a file cut short somewhere after its first Cluster begins
CutAfterFirstCluster ==
  /\ input.segment
  /\ input.cut > 0
  /\ input.options.clusters # <<>>
  /\ Len(file) > FirstClusterStartOf

\* C5  Truncation tolerance: the parse of a file cut short after its first
\* Cluster begins returns, and the duration it returns is at most the
\* duration of the whole file.
C5_TruncationTolerated ==
  (Finished /\ CutAfterFirstCluster)
    => /\ pc = "done"
       /\ result.duration # null => RatLeq(result.duration, IntendedDuration)

\* the header scan resolved cuesOffset to an element that is not Cues
CuesMismatch ==
  /\ pc # "scanHeader"
  /\ Has(headerResult, "cuesOffset")
  /\ headerResult.cuesOffset # null
  /\ LET h == readElementHeader(file, headerResult.cuesOffset[1])
     IN  h.err = "none" /\ h.id # IDS_CUES

\* C6  Cues mismatch falls through: when Info declares no Duration and the
\* element at cuesOffset is not Cues, the Cues scanner ends after its one
\* header read without an error, the tail scanner runs, and the parse
\* returns the tail scanner's result.
C6_CuesMismatchFallsThrough ==
  (Finished /\ DeclaredDuration = <<>> /\ CuesMismatch)
    => /\ pc = "done"
       /\ Cardinality(ReadsBy("scanCues")) = 1
       /\ Cardinality(ReadsBy("scanTail")) = 1
       /\ result.duration
            = scanTail(file, Len(file), DeclaredScale).value
       /\ input.options.clusters = StandardClusters
            => result.duration = Seconds(9)

\* a parse whose SeekHead pointed at a Cluster and that took its duration
\* from the tail
C6_Witness ==
  /\ pc = "done"
  /\ DeclaredDuration = <<>>
  /\ CuesMismatch
  /\ input.options.seekTo = "clusters"
  /\ Cardinality(ReadsBy("scanTail")) = 1
  /\ result.duration = Seconds(9)

\* the object a TrackEntry of the input decodes to
ExpectedTrack(track) ==
  [trackNumber |-> track.number, trackType |-> track.type]
  @@ (IF track.codecId = <<>> THEN EmptyObject
      ELSE [codecId |-> track.codecId[1]])
  @@ (IF track.video = <<>> THEN EmptyObject
      ELSE [video |-> [width |-> track.video[1], height |-> track.video[2]]])
  @@ (IF track.audio = <<>> THEN EmptyObject
      ELSE [audio |-> [sampleRate |-> <<track.audio[1], 1>>,
                       channels |-> track.audio[2]]])

\* the TrackEntry elements of the file, in file order
DeclaredTracks ==
  IF ~input.segment \/ input.options.tracks = <<>> THEN <<>>
  ELSE input.options.tracks[1]

ExpectedTracks == [i \in 1..Len(DeclaredTracks) |-> ExpectedTrack(DeclaredTracks[i])]

ExpectedInfo ==
  [timecodeScale |-> DeclaredScale]
  @@ (IF DeclaredDuration = <<>> THEN EmptyObject
      ELSE [duration |-> <<DeclaredDuration[1], 1>>])

\* "video/webm", followed by the quoted list of the given codec IDs when
\* there is one
RECURSIVE CodecList(_)
CodecList(codecs) ==
  IF Len(codecs) = 1 THEN codecs[1]
  ELSE CodecList(SubSeq(codecs, 1, Len(codecs) - 1)) \o CODECS_SEPARATOR
       \o codecs[Len(codecs)]

MimeOf(codecs) ==
  IF codecs = <<>> THEN VIDEO_WEBM
  ELSE VIDEO_WEBM \o CODECS_OPEN \o CodecList(codecs) \o CODECS_CLOSE

\* the codec IDs of the tracks that hold a CodecID element, in track order
DeclaredCodecs ==
  LET with == SelectSeq(DeclaredTracks, LAMBDA t : t.codecId # <<>>)
  IN  [i \in 1..Len(with) |-> with[i].codecId[1]]

\* those of them that are not the empty string
NonEmptyCodecs == SelectSeq(DeclaredCodecs, LAMBDA c : c # <<>>)

\* a whole file in which no tier can find a duration
NothingResolvable ==
  /\ input.segment
  /\ input.cut = 0
  /\ DeclaredDuration = <<>>
  /\ input.options.cues = <<>>
  /\ input.options.clusters = <<>>

\* C7  An unresolved duration is not an error: when no tier resolves a
\* duration the parse still returns, with fileSize, mimeType, info and
\* tracks as the header holds them and with a null duration.
C7_UnresolvedIsNotAnError ==
  /\ (Finished /\ NothingResolvable) => (pc = "done" /\ result.duration = null)
  /\ (pc = "done" /\ HeaderIntact /\ DeclaredDuration = <<>> /\ duration = null)
       => result = [duration |-> null,
                    fileSize |-> Len(file),
                    mimeType |-> MimeOf(NonEmptyCodecs),
                    info |-> ExpectedInfo,
                    tracks |-> ExpectedTracks]

\* a parse that returned its metadata without a duration
C7_Witness ==
  /\ pc = "done"
  /\ NothingResolvable
  /\ result.duration = null
  /\ Len(result.tracks) = 1
  /\ result.fileSize = Len(file)
  /\ Cardinality(ReadsBy("scanTail")) = 1

\* every element header the walk from offset 0 reads decodes
RECURSIVE TopLevelDecodes(_, _)
TopLevelDecodes(f, offset) ==
  IF offset >= Min(Len(f), HEADER_SCAN_LIMIT) THEN TRUE
  ELSE LET h == readElementHeader(f, offset)
       IN  h.err = "none" /\ TopLevelDecodes(f, offset + h.headerSize + h.size)

\* C8 as stated: when the walk from offset 0 reaches no Segment, scanHeader
\* fails with the Segment-not-found error, the parse rejects with it, and
\* neither the Cues scanner nor the tail scanner issues a read.
C8_SegmentNotFoundAlways ==
  (pc # "scanHeader" /\ ~input.segment)
    => /\ pc = "rejected"
       /\ error = "SegmentNotFound"
       /\ NoReadBy("scanCues")
       /\ NoReadBy("scanTail")

\* C8  Header scan failure is fatal: when the walk from offset 0 reaches no
\* Segment the parse rejects, and neither the Cues scanner nor the tail
\* scanner issues a read; the error is the Segment-not-found error when
\* every element header the walk read decoded (the empty file included),
\* and the decode error otherwise.
C8_HeaderFailureIsFatal ==
  (pc # "scanHeader" /\ ~input.segment)
    => /\ pc = "rejected"
       /\ NoReadBy("scanCues")
       /\ NoReadBy("scanTail")
       /\ TopLevelDecodes(file, 0) => error = "SegmentNotFound"
       /\ ~TopLevelDecodes(file, 0)
            => error \in {"InvalidID", "InvalidVint", "RangeError"}

\* a parse rejected for want of a Segment in a file that holds an element
C8_Witness ==
  /\ pc = "rejected"
  /\ ~input.segment
  /\ Len(file) > 0
  /\ error = "SegmentNotFound"
  /\ reads # <<>>

\* C9  Track discovery: the tracks returned are one per TrackEntry of the
\* file, in file order, each with the trackNumber, trackType, codecId, video
\* and audio of that TrackEntry and of no other.
C9_TrackDiscovery ==
  (pc = "done" /\ HeaderIntact) => result.tracks = ExpectedTracks

\* a parse that returned a video track and an audio track
C9_Witness ==
  /\ pc = "done"
  /\ Len(result.tracks) = 2
  /\ result.tracks[1] = [trackNumber |-> 1, trackType |-> 1, codecId |-> V_VP9,
                         video |-> [width |-> 1920, height |-> 1080]]
  /\ result.tracks[2] = [trackNumber |-> 2, trackType |-> 2,
                         codecId |-> A_OPUS,
                         audio |-> [sampleRate |-> <<48000, 1>>,
                                    channels |-> 2]]

NumCalls == 2

Calls == 1..NumCalls

\* the call at its first line, before scanHeader issued a read
NewCall(source) ==
  [file |-> source, pc |-> "scanHeader", pending |-> scanHeader(source).reads,
   outstanding |-> <<>>, completed |-> <<>>, headerResult |-> EmptyObject,
   resultBase |-> EmptyObject, duration |-> null, result |-> EmptyObject,
   error |-> "none"]

\* no read of the scanner in progress is left to issue or to resolve
Drained(call) == call.pending = <<>> /\ call.outstanding = <<>>

\* reader.read(offset, length) is called
IssueOf(call) ==
  [call EXCEPT !.outstanding = Append(@, Head(call.pending)),
               !.pending = Tail(@)]

\* the promise of the read resolves and the await returns
CompleteOf(call) ==
  [call EXCEPT !.completed = Append(@, Head(call.outstanding)),
               !.outstanding = Tail(@)]

\* scanHeader returned or threw, then the lines up to the first tier
HeaderScannedOf(call) ==
  The({
    IF h.err # "none"
    THEN [call EXCEPT !.pc = "rejected", !.error = h.err]
    ELSE [call EXCEPT !.pc = "cuesTier",
                      !.headerResult = [info |-> h.info, tracks |-> h.tracks,
                                        cuesOffset |-> h.cuesOffset],
                      !.resultBase = [duration |-> null,
                                      fileSize |-> getSize(call.file),
                                      mimeType |-> mimeTypeOf(h.tracks),
                                      info |-> h.info,
                                      tracks |-> h.tracks],
                      !.duration = infoDuration(h.info)]
    : h \in {scanHeader(call.file)} })

\* if (duration === null && headerResult.cuesOffset !== null), duration
\* being the value the call reads from its variable
CuesTierOf(call, seen) ==
  IF seen = null /\ call.headerResult.cuesOffset # null
  THEN [call EXCEPT !.pc = "scanCues",
                    !.pending = scanCues(call.file,
                                  call.headerResult.cuesOffset[1],
                                  call.headerResult.info.timecodeScale).reads]
  ELSE [call EXCEPT !.pc = "tailTier"]

\* scanCues returned or threw
CuesScannedOf(call) ==
  The({
    IF c.err # "none"
    THEN [call EXCEPT !.pc = "rejected", !.error = c.err]
    ELSE [call EXCEPT !.pc = "tailTier", !.duration = c.value]
    : c \in {scanCues(call.file, call.headerResult.cuesOffset[1],
                      call.headerResult.info.timecodeScale)} })

\* if (duration === null)
TailTierOf(call, seen) ==
  IF seen = null
  THEN [call EXCEPT !.pc = "scanTail",
                    !.pending = scanTail(call.file, call.resultBase.fileSize,
                                  call.headerResult.info.timecodeScale).reads]
  ELSE [call EXCEPT !.pc = "return", !.duration = seen]

\* scanTail returned
TailScannedOf(call) ==
  [call EXCEPT !.pc = "return",
               !.duration = scanTail(call.file, call.resultBase.fileSize,
                              call.headerResult.info.timecodeScale).value]

\* return { ...resultBase, duration }
ReturnOf(call) ==
  [call EXCEPT !.pc = "done",
               !.result = [call.resultBase EXCEPT !.duration = call.duration]]

\* faulty variant: a read issued while the previous one has not resolved
IssueRead_speculative(c) ==
  /\ calls[c].pending # <<>>
  /\ calls' = [calls EXCEPT ![c] = IssueOf(@)]

\* await reader.read(...): the next read of call c is issued once the
\* previous one resolved
IssueRead(c) ==
  /\ calls[c].pending # <<>>
  /\ calls[c].outstanding = <<>>
  /\ calls' = [calls EXCEPT ![c] = IssueOf(@)]

CompleteRead(c) ==
  /\ calls[c].outstanding # <<>>
  /\ calls' = [calls EXCEPT ![c] = CompleteOf(@)]

HeaderScanned(c) ==
  /\ calls[c].pc = "scanHeader"
  /\ Drained(calls[c])
  /\ calls' = [calls EXCEPT ![c] = HeaderScannedOf(@)]

\* faulty variant: duration is one variable of the module, which the tiers
\* of every call read and write
DurationSeenBy_shared(c) ==
  IF \E d \in Calls : calls[d].duration # null
  THEN calls[CHOOSE d \in Calls : calls[d].duration # null].duration
  ELSE null

\* let duration = ... is a local of the call
DurationSeenBy(c) == calls[c].duration

CuesTierEntered(c) ==
  /\ calls[c].pc = "cuesTier"
  /\ calls' = [calls EXCEPT ![c] = CuesTierOf(@, DurationSeenBy(c))]

CuesScanned(c) ==
  /\ calls[c].pc = "scanCues"
  /\ Drained(calls[c])
  /\ calls' = [calls EXCEPT ![c] = CuesScannedOf(@)]

TailTierEntered(c) ==
  /\ calls[c].pc = "tailTier"
  /\ calls' = [calls EXCEPT ![c] = TailTierOf(@, DurationSeenBy(c))]

TailScanned(c) ==
  /\ calls[c].pc = "scanTail"
  /\ Drained(calls[c])
  /\ calls' = [calls EXCEPT ![c] = TailScannedOf(@)]

Returned(c) ==
  /\ calls[c].pc = "return"
  /\ calls' = [calls EXCEPT ![c] = ReturnOf(@)]

\* the sources of the calls: a file resolved by Info.Duration, one by its
\* Cues, one by its tail, and two without a Segment
CallSources ==
  { buildWebm(Options(Info(<<>>, <<5>>), <<>>, <<>>, <<>>, "none")),
    buildWebm(Options(<<>>, <<<<VideoTrack>>>>, <<>>, <<2>>, "direct")),
    buildWebm(Options(<<>>, <<>>, ClustersOf(<<3>>, 2, 0), <<>>, "none")),
    <<>>,
    <<66>> }

\* the variables of the single call, which stay as they are while the calls
\* run
singleCall == <<input, file, pc, headerResult, resultBase, duration, result,
                error, reads, oom>>

InitCalls ==
  /\ calls \in [Calls -> {NewCall(source) : source \in CallSources}]
  /\ input = Input(<<>>, FALSE, NoOptions, 0, 0)
  /\ file = <<>>
  /\ pc = "calls"
  /\ headerResult = EmptyObject
  /\ resultBase = EmptyObject
  /\ duration = null
  /\ result = EmptyObject
  /\ error = "none"
  /\ reads = <<>>
  /\ oom = FALSE

NextCalls ==
  \E c \in Calls :
    /\ \/ IssueRead(c)
       \/ CompleteRead(c)
       \/ HeaderScanned(c)
       \/ CuesTierEntered(c)
       \/ CuesScanned(c)
       \/ TailTierEntered(c)
       \/ TailScanned(c)
       \/ Returned(c)
    /\ UNCHANGED singleCall

SpecCalls == InitCalls /\ [][NextCalls]_vars

\* the call as it ends when it runs from its first line with no other call
\* in flight
RECURSIVE RunAlone(_)
RunAlone(call) ==
  IF call.pc \in {"done", "rejected"} THEN call
  ELSE IF call.outstanding # <<>> THEN RunAlone(CompleteOf(call))
  ELSE IF call.pending # <<>> THEN RunAlone(IssueOf(call))
  ELSE IF call.pc = "scanHeader" THEN RunAlone(HeaderScannedOf(call))
  ELSE IF call.pc = "cuesTier" THEN RunAlone(CuesTierOf(call, call.duration))
  ELSE IF call.pc = "scanCues" THEN RunAlone(CuesScannedOf(call))
  ELSE IF call.pc = "tailTier" THEN RunAlone(TailTierOf(call, call.duration))
  ELSE IF call.pc = "scanTail" THEN RunAlone(TailScannedOf(call))
  ELSE RunAlone(ReturnOf(call))

\* C11  Sequential reads: at every moment of a parseWebm call at most one
\* read of that call is outstanding; a read is issued only after the
\* previous read of the call has resolved.
C11_SequentialReads ==
  \A c \in Calls : Len(calls[c].outstanding) <= 1

\* a call with a read in flight after two of its reads resolved
C11_Witness ==
  \E c \in Calls :
    /\ Len(calls[c].outstanding) = 1
    /\ Len(calls[c].completed) >= 2

\* C12  Isolation of concurrent parses: whatever the order in which the
\* steps of two calls interleave, on the same source or on different ones,
\* a call that ended has the result or the error, and has made the reads,
\* of the same call run alone.
C12_CallsAreIsolated ==
  \A c \in Calls :
    calls[c].pc \in {"done", "rejected"}
      => calls[c] = RunAlone(NewCall(calls[c].file))

\* two calls on different sources that both ended, the first resolved by
\* its tail after the second had its duration from Info
C12_Witness ==
  /\ calls[1].pc = "done"
  /\ calls[2].pc = "done"
  /\ calls[1].file # calls[2].file
  /\ calls[1].result.duration = <<3, 1000>>
  /\ calls[2].result.duration = <<1, 200>>

\* --------------------------------------------------------------------------
\* decoder.ts at every length.  The numbers of the decoder are IEEE 754
\* doubles; an integer-valued double is its sign and the base-256 digits of
\* its magnitude, most significant first and without leading zeros, and an
\* operation rounds its exact result to the 53 bits of a significand.
\* --------------------------------------------------------------------------
\* the bits of the significand of a double
SIGNIFICAND_BITS == 53

RECURSIVE Digits(_)
Digits(n) == IF n = 0 THEN <<>> ELSE Append(Digits(n \div 256), n % 256)

\* the double of a small integer
DoubleOf(n) == [neg |-> n < 0, digits |-> Digits(Abs(n))]

RECURSIVE Normalized(_)
Normalized(d) ==
  IF d # <<>> /\ d[1] = 0 THEN Normalized(Tail(d)) ELSE d

\* the number of bits of the magnitude
BitLength(d) ==
  IF d = <<>> THEN 0 ELSE (8 * (Len(d) - 1)) + (9 - VintLength(d[1]))

\* d + 1
RECURSIVE Successor(_)
Successor(d) ==
  IF d = <<>> THEN <<1>>
  ELSE IF d[Len(d)] = 255
  THEN Append(Successor(SubSeq(d, 1, Len(d) - 1)), 0)
  ELSE [d EXCEPT ![Len(d)] = @ + 1]

\* the double nearest to the integer d, ties to the even significand; the
\* integers of the decoder have at most 57 bits, so that the rounding is
\* within the last digit
RoundToDouble(d) ==
  IF BitLength(d) <= SIGNIFICAND_BITS THEN d
  ELSE LET ulp == 2 ^ (BitLength(d) - SIGNIFICAND_BITS)
           last == d[Len(d)]
           rest == last % ulp
           below == last - rest
           roundsUp == \/ 2 * rest > ulp
                       \/ 2 * rest = ulp /\ (below \div ulp) % 2 = 1
       IN  IF ~roundsUp THEN [d EXCEPT ![Len(d)] = below]
           ELSE IF below + ulp = 256
           THEN Append(Successor(SubSeq(d, 1, Len(d) - 1)), 0)
           ELSE [d EXCEPT ![Len(d)] = below + ulp]

\* value = (value * 256) + b for i = 0 .. n-1; the product by 256 is exact
RECURSIVE DoubleBE(_, _, _, _)
DoubleBE(view, offset, n, value) ==
  IF n <= 0 THEN value
  ELSE DoubleBE(view, offset + 1, n - 1,
         RoundToDouble(Normalized(Append(value, getUint8(view, offset)))))

\* Math.pow(2, bits) - 1
PowerOfTwoMinusOne(bits) ==
  RoundToDouble(Normalized(<<(2 ^ (bits % 8)) - 1>>
                           \o [i \in 1..(bits \div 8) |-> 255]))

\* readVint with the value as a double, at every length
readVintDouble(view, offset) ==
  IF ~InView(view, offset) THEN Failed("RangeError")
  ELSE LET byte1 == getUint8(view, offset)
           length == VintLength(byte1)
       IN  IF length = 0 THEN Failed("InvalidVint")
           ELSE IF offset + length > Len(view) THEN Failed("RangeError")
           ELSE LET value == DoubleBE(view, offset + 1, length - 1,
                               Digits(byte1 % (2 ^ (8 - length))))
                    maxVal == PowerOfTwoMinusOne(7 * length)
                IN  IF value = maxVal
                    THEN [err |-> "none",
                          value |-> DoubleOf(VINT_UNKNOWN_MARKER),
                          length |-> length]
                    ELSE [err |-> "none",
                          value |-> [neg |-> FALSE, digits |-> value],
                          length |-> length]

\* faulty variant: the marker bit taken off the first byte, as readVint
\* does
readIDDouble_withoutMarker(view, offset) ==
  IF ~InView(view, offset) THEN Failed("RangeError")
  ELSE LET byte1 == getUint8(view, offset)
           length == VintLength(byte1)
       IN  IF length = 0 THEN Failed("InvalidID")
           ELSE IF offset + length > Len(view) THEN Failed("RangeError")
           ELSE [err |-> "none",
                 value |-> [neg |-> FALSE,
                            digits |-> DoubleBE(view, offset + 1, length - 1,
                                         Digits(byte1 % (2 ^ (8 - length))))],
                 length |-> length]

\* readID with the value as a double, at every length
readIDDouble(view, offset) ==
  IF ~InView(view, offset) THEN Failed("RangeError")
  ELSE LET byte1 == getUint8(view, offset)
           length == VintLength(byte1)
       IN  IF length = 0 THEN Failed("InvalidID")
           ELSE IF offset + length > Len(view) THEN Failed("RangeError")
           ELSE [err |-> "none",
                 value |-> [neg |-> FALSE,
                            digits |-> DoubleBE(view, offset, length, <<>>)],
                 length |-> length]

\* --------------------------------------------------------------------------
\* The decoder on its own: a view is drawn, then readVint or readID is
\* applied to it at offset 0
\* --------------------------------------------------------------------------
\* the bytes that fill the middle of a sampled VINT, and its last bytes
FillBytes == {0, 1, 32, 255}

LastBytes == (0..8) \cup (247..255)

\* the content bits of the first byte of a sampled VINT of the length
FirstBits(length) == {0, 1, (2 ^ (8 - length)) - 1} \cap (0..((2 ^ (8 - length)) - 1))

\* the length bytes that hold the content bits of a sampled VINT
VintContents(length) ==
  IF length = 1 THEN {<<b>> : b \in 0..127}
  ELSE { <<first>> \o [i \in 1..(length - 1) |-> IF i = length - 1 THEN last ELSE fill]
         : first \in FirstBits(length), fill \in FillBytes, last \in LastBytes }

\* the encoding in length bytes: the marker bit set in the first byte
VintEncoding(length, content) ==
  <<content[1] + (2 ^ (8 - length))>> \o Tail(content)

\* a VINT: its length, the value of its content bits, and its bytes
VintSamples ==
  UNION { { [kind |-> "vint", length |-> l, content |-> c,
             bytes |-> VintEncoding(l, c)] : c \in VintContents(l) }
          : l \in 1..8 }

\* the views of the decoder tests
TestViews ==
  { <<129>>, <<64, 2>>, <<1, 0, 0, 0, 0, 0, 0, 1>>, <<255>>,
    <<1, 255, 255, 255, 255, 255, 255, 255>> }

\* the element IDs of the constant table
IdTable ==
  { IDS_EBML, IDS_SEGMENT, IDS_SEEK_HEAD, IDS_INFO, IDS_TRACKS, IDS_CUES,
    IDS_CLUSTER, IDS_TIMECODE_SCALE, IDS_DURATION, IDS_MUXING_APP,
    IDS_WRITING_APP, IDS_TRACK_ENTRY, IDS_TRACK_NUMBER, IDS_TRACK_TYPE,
    IDS_CODEC_ID, IDS_VIDEO, IDS_PIXEL_WIDTH, IDS_PIXEL_HEIGHT, IDS_AUDIO,
    IDS_SAMPLING_FREQ, IDS_CHANNELS, IDS_TIMECODE, IDS_CUE_POINT,
    IDS_CUE_TIME, IDS_SIMPLE_BLOCK, IDS_BLOCK_GROUP }

\* an ID of the table in its big-endian bytes
IdSamples ==
  { [kind |-> "id", id |-> id, bytes |-> writeID(id)] : id \in IdTable }

\* any first byte, alone or followed by seven bytes
ByteSamples ==
  { [kind |-> "bytes", bytes |-> <<b>> \o rest]
    : b \in 0..255, rest \in {<<>>, <<0, 0, 0, 0, 0, 0, 0>>,
                              <<255, 255, 255, 255, 255, 255, 255>>} }

DecoderSamples ==
  VintSamples \cup IdSamples \cup ByteSamples
    \cup { [kind |-> "bytes", bytes |-> v] : v \in TestViews }

InitDecoder ==
  /\ input \in DecoderSamples
  /\ file = input.bytes
  /\ pc = "view"
  /\ headerResult = EmptyObject
  /\ resultBase = EmptyObject
  /\ duration = null
  /\ result = EmptyObject
  /\ error = "none"
  /\ reads = <<>>
  /\ oom = FALSE
  /\ calls = <<>>

\* readVint(view, 0)
ReadVint ==
  /\ pc = "view"
  /\ pc' = "readVint"
  /\ result' = readVintDouble(file, 0)
  /\ UNCHANGED <<input, file, headerResult, resultBase, duration, error, reads, oom, calls>>

\* readID(view, 0)
ReadID ==
  /\ pc = "view"
  /\ pc' = "readID"
  /\ result' = readIDDouble(file, 0)
  /\ UNCHANGED <<input, file, headerResult, resultBase, duration, error, reads, oom, calls>>

NextDecoder == ReadVint \/ ReadID

SpecDecoder == InitDecoder /\ [][NextDecoder]_vars

\* the content bits of a sample are all set
AllContentBitsSet(sample) ==
  Normalized(sample.content)
    = Normalized(<<(2 ^ (8 - sample.length)) - 1>> \o [i \in 1..(sample.length - 1) |-> 255])

\* C13  VINT decoding: readVint of the L-byte encoding of a value below
\* 2^(7L) - 1 returns that value and the length L, for every L in 1..8; the
\* encoding with all content bits set decodes to the UNKNOWN sentinel with
\* the length L, and no other encoding does.
C13_VintRoundTrip ==
  (pc = "readVint" /\ input.kind = "vint")
    => result = [err |-> "none",
                 value |-> IF AllContentBitsSet(input)
                           THEN DoubleOf(VINT_UNKNOWN_MARKER)
                           ELSE [neg |-> FALSE,
                                 digits |-> Normalized(input.content)],
                 length |-> input.length]

\* the number of bits of a byte from its highest set bit down
RECURSIVE BitsOf(_)
BitsOf(byte) == IF byte = 0 THEN 0 ELSE 1 + BitsOf(byte \div 2)

LeadingZeroBits(byte) == 8 - BitsOf(byte)

\* C14  VINT length rule: whenever readVint or readID returns, the length
\* it returns is in 1..8 and is 1 plus the number of leading zero bits of
\* the first byte; on a first byte 0x00 both fail with the error of an
\* invalid marker and return nothing.
C14_VintLengthRule ==
  (pc \in {"readVint", "readID"})
    => /\ result.err = "none"
            => /\ result.length \in 1..8
               /\ result.length = 1 + LeadingZeroBits(file[1])
       /\ (file[1] = 0)
            => result.err = (IF pc = "readVint" THEN "InvalidVint" ELSE "InvalidID")

\* readID was applied to a view that begins with 0x00 and failed
C14_Witness ==
  /\ pc = "readID"
  /\ Len(file) = 8
  /\ file[1] = 0
  /\ result.err = "InvalidID"

\* C15  ID decoding retains the marker bit: readID of the big-endian bytes
\* of an element ID of the constant table, which are 1 to 4 bytes, returns
\* the ID itself, marker bit included, and the number of those bytes.
C15_IdRoundTrip ==
  (pc = "readID" /\ input.kind = "id")
    => /\ Len(input.bytes) \in 1..4
       /\ BEUint(input.bytes, 0, Len(input.bytes), 0) = input.id
       /\ result = [err |-> "none", value |-> DoubleOf(input.id),
                    length |-> Len(input.bytes)]

\* readID decoded the four bytes of the ID of the EBML header
C15_Witness ==
  /\ pc = "readID"
  /\ input.kind = "id"
  /\ input.id = IDS_EBML
  /\ result.length = 4
  /\ result.value = DoubleOf(IDS_EBML)

\* C16  Presence, not truthiness: a Duration element that decodes to 0 is a
\* declared Duration; the parse reports the duration 0 and neither the Cues
\* scanner nor the tail scanner has issued a read.
C16_ZeroDurationIsPresent ==
  (Finished /\ HeaderIntact /\ DeclaredDuration = <<0>>)
    => /\ pc = "done"
       /\ result.duration = Seconds(0)
       /\ result.duration # null
       /\ NoReadBy("scanCues")
       /\ NoReadBy("scanTail")

\* --------------------------------------------------------------------------
\* Files written element by element, as core/scanner.test.ts writes the ones
\* the fixture builder cannot make: a size field that says UNKNOWN, elements
\* behind the first Cluster, a TimecodeScale without content, a negative
\* Duration, blocks with a relative timecode
\* --------------------------------------------------------------------------
\* the size field of one byte with all its content bits set
UNKNOWN_SIZE == <<255>>

createUnknownSizeElement(id, content) == writeID(id) \o UNKNOWN_SIZE \o content

\* a child of the Segment: its bytes, and what it holds.  scale and dur are
\* <<>> or <<value>>, tracks the tracks in the form of ExpectedTrack.
Child(kind, bytes, unknown, scale, dur, tracks) ==
  [kind |-> kind, bytes |-> bytes, unknown |-> unknown, scale |-> scale,
   dur |-> dur, tracks |-> tracks]

\* the ways an Info element holds its TimecodeScale
ScaleElements ==
  { [how |-> "absent", bytes |-> <<>>],
    [how |-> "declared",
     bytes |-> createElement(IDS_TIMECODE_SCALE, <<15, 66, 64>>)],
    [how |-> "empty", bytes |-> createElement(IDS_TIMECODE_SCALE, <<>>)],
    [how |-> "zeros", bytes |-> createElement(IDS_TIMECODE_SCALE, <<0, 0, 0>>)],
    [how |-> "unknown",
     bytes |-> createUnknownSizeElement(IDS_TIMECODE_SCALE, <<>>)] }

\* the ways an Info element holds its Duration: not at all, or the float32
\* 5.0 or -5.0
DurationElements ==
  { [dur |-> <<>>, bytes |-> <<>>],
    [dur |-> <<5>>, bytes |-> createElement(IDS_DURATION, <<64, 160, 0, 0>>)],
    [dur |-> <<-5>>, bytes |-> createElement(IDS_DURATION, <<192, 160, 0, 0>>)] }

InfoChild(scale, d) ==
  Child("Info", createElement(IDS_INFO, scale.bytes \o d.bytes), FALSE,
        IF scale.how = "absent" THEN <<>> ELSE <<scale.how>>, d.dur, <<>>)

TracksChild(tracksList) ==
  Child("Tracks", createTracks(tracksList), FALSE, <<>>, <<>>,
        [i \in 1..Len(tracksList) |-> ExpectedTrack(tracksList[i])])

CuesChild(cuesList) ==
  Child("Cues", createCues(cuesList), FALSE, <<>>, <<>>, <<>>)

ClusterChild(timecode) ==
  Child("Cluster", createCluster(Cluster(timecode, 1, 2)), FALSE, <<>>, <<>>, <<>>)

\* DataView.setInt16(0, relative, false)
Int16Bytes(relative) == BEBytes((relative + 65536) % 65536, 2)

\* a Cluster of a Timecode and one SimpleBlock: the track number 1, the
\* timecode relative to the Cluster's, the flags and one byte of payload
BlockClusterChild(timecode, relative) ==
  Child("Cluster",
        createElement(IDS_CLUSTER,
          createElement(IDS_TIMECODE, <<timecode>>)
          \o createElement(IDS_SIMPLE_BLOCK,
               <<129>> \o Int16Bytes(relative) \o <<0, 170>>)),
        FALSE, <<>>, <<>>, <<>>)

SeekHeadChild(cuesPosition) ==
  Child("SeekHead", createSeekHead(cuesPosition), FALSE, <<>>, <<>>, <<>>)

\* the same element with the size field UNKNOWN in place of its size
UnknownSize(child, id) ==
  [child EXCEPT !.unknown = TRUE,
                !.bytes = createUnknownSizeElement(id,
                            SubSeq(child.bytes, Len(writeID(id)) + 2,
                                   Len(child.bytes)))]

\* the file: an EBML header, then the Segment of the children
LayoutFile(children) ==
  EbmlHeader
  \o createElement(IDS_SEGMENT,
       concat([i \in 1..Len(children) |-> children[i].bytes]))

\* stop is the index of the child the walk is to stop at, 0 when the file
\* has none
Layout(family, before, stopper, after) ==
  [family |-> family, children |-> before \o stopper \o after,
   stop |-> IF stopper = <<>> THEN 0 ELSE Len(before) + 1]

PlainInfo == InfoChild([how |-> "absent", bytes |-> <<>>], [dur |-> <<>>, bytes |-> <<>>])

\* Info elements that hold a TimecodeScale in every way, alone or followed
\* by a Cluster or by Cues
ScaleLayouts ==
  { Layout("scale", <<InfoChild(s, d)>>, <<>>, rest)
    : s \in ScaleElements, d \in {e \in DurationElements : e.dur # <<-5>>},
      rest \in {<<>>, <<ClusterChild(3)>>, <<CuesChild(<<2>>)>>,
                <<TracksChild(<<VideoTrack>>), ClusterChild(3)>>} }

\* every tier with the values it can resolve: a Duration of either sign,
\* Cues, and Clusters whose block lies before or behind the Cluster's
\* timecode
DurationLayouts ==
  { Layout("duration", <<InfoChild(s, d)>> \o cues, <<>>, clusters)
    : s \in {e \in ScaleElements : e.how \in {"absent", "declared"}},
      d \in DurationElements,
      cues \in {<<>>, <<CuesChild(<<2, 1>>)>>},
      clusters \in {<<>>} \cup {<<BlockClusterChild(t, r)>> : t \in {0, 4}, r \in {-3, 2}} }

\* what a file holds in front of the element the walk stops at
HeadChildren ==
  { <<>>,
    <<InfoChild([how |-> "absent", bytes |-> <<>>],
                [dur |-> <<5>>, bytes |-> createElement(IDS_DURATION, <<64, 160, 0, 0>>)])>>,
    <<PlainInfo, TracksChild(<<VideoTrack>>)>>,
    <<CuesChild(<<2>>), TracksChild(<<VideoTrack>>)>> }

\* the elements of the four kinds the walk looks into; the Info declares a
\* Duration and the Tracks an audio track
LateInfo ==
  InfoChild([how |-> "absent", bytes |-> <<>>],
            [dur |-> <<-5>>, bytes |-> createElement(IDS_DURATION, <<192, 160, 0, 0>>)])

LateTracks == TracksChild(<<Track(2, 2, <<A_OPUS>>, <<>>, <<>>)>>)

LateCues == CuesChild(<<7>>)

LateSeekHead == SeekHeadChild(0)

\* what a file holds behind the element the walk stops at
TailChildren ==
  { <<LateInfo>>, <<LateTracks>>, <<LateCues>>, <<LateSeekHead>>,
    <<LateSeekHead, LateInfo, LateTracks, LateCues>> }

\* elements behind the first Cluster
ClusterStopLayouts ==
  { Layout("cluster", before, <<ClusterChild(3)>>, after)
    : before \in HeadChildren, after \in TailChildren \cup {<<>>} }

\* the ID of a Void element, which the walk does not look into
ID_VOID == 236

\* a child of the Segment that is no Cluster and whose size is UNKNOWN
UnknownSizeChildren ==
  { UnknownSize(LateInfo, IDS_INFO), UnknownSize(LateTracks, IDS_TRACKS),
    UnknownSize(LateCues, IDS_CUES), UnknownSize(LateSeekHead, IDS_SEEK_HEAD),
    Child("Void", createUnknownSizeElement(ID_VOID, <<0, 0>>), TRUE, <<>>, <<>>, <<>>) }

UnknownSizeLayouts ==
  { Layout("unknown", before, <<stopper>>, after)
    : before \in HeadChildren, stopper \in UnknownSizeChildren,
      after \in TailChildren \cup {<<>>, <<ClusterChild(3)>>} }

\* one Seek entry: a SeekID of the given bytes and a SeekPosition
createSeek(idBytes, position) ==
  createElement(ID_SEEK,
    createElement(ID_SEEK_ID, idBytes)
    \o createElement(ID_SEEK_POSITION, BEBytes(position, 4)))

\* a SeekHead of the given Seek entries, each [id |-> bytes, pos |-> number]
SeekEntriesChild(seeks) ==
  Child("SeekHead",
        createElement(IDS_SEEK_HEAD,
          concat([i \in 1..Len(seeks) |-> createSeek(seeks[i].id, seeks[i].pos)])),
        FALSE, <<>>, <<>>, <<>>)

\* the bytes of a SeekID: the IDs of Cues, Info and Void, the Void ID behind
\* a zero byte, the first byte of the Cues ID alone, and the Cues ID behind a
\* zero byte cut to four bytes
SeekIdBytes ==
  { <<28, 83, 187, 107>>, <<21, 73, 169, 102>>, <<236>>, <<0, 236>>, <<28>>,
    <<0, 28, 83, 187>> }

SeekEntries == { [id |-> b, pos |-> p] : b \in SeekIdBytes, p \in {0, 40} }

\* a SeekHead of one or two Seek entries, alone or in front of Tracks
SeekLayouts ==
  { Layout("seek", <<SeekEntriesChild(seeks)>>, <<>>, rest) @@ [seeks |-> seeks]
    : seeks \in {<<e>> : e \in SeekEntries}
               \cup {<<e, f>> : e \in SeekEntries, f \in {g \in SeekEntries : g.pos = 40}},
      rest \in {<<>>, <<TracksChild(<<VideoTrack>>)>>} }

\* the bytes that follow the Segment in the file: a zero byte, junk, and
\* whole Tracks, Cues and Cluster elements
Trailers ==
  { <<0>>, <<JUNK_BYTE, JUNK_BYTE, JUNK_BYTE>>, LateTracks.bytes, LateCues.bytes,
    ClusterChild(3).bytes }

\* a Segment of a known size with bytes behind it
TrailerLayouts ==
  { Layout("trailer", children, <<>>, <<>>) @@ [trailer |-> t]
    : children \in {<<PlainInfo>>, <<PlainInfo, TracksChild(<<VideoTrack>>)>>},
      t \in Trailers }

\* the walkers of composite elements
Walkers ==
  { "Segment", "SeekHead", "Seek", "Info", "Tracks", "TrackEntry", "Video",
    "Audio", "Cues", "CuePoint" }

\* the ID of EBMLReadVersion, an ID of two bytes no walker looks for
ID_READ_VERSION == 17143

\* children no walker recognizes, of a known size: a Void element without
\* content and with two bytes of it, and an element with an ID of two bytes
UnrecognizedChildren ==
  { createElement(ID_VOID, <<>>), createElement(ID_VOID, <<236, 236>>),
    createElement(ID_READ_VERSION, <<9>>) }

\* the content of a composite element: its own children, and the
\* unrecognized child in front of them or behind them when the layout puts
\* it into the walker of that element
WithExtra(layout, walker, content) ==
  IF layout.where # walker THEN content
  ELSE IF layout.place = "front" THEN layout.extra \o content
  ELSE content \o layout.extra

\* a file with an element for every walker: a SeekHead that points at the
\* Cues, Info, Tracks of a video and an audio track, Cues of two CuePoints
\* in front of or behind a Cluster
SkipSegment(layout) ==
  LET seek(position) ==
        createElement(IDS_SEEK_HEAD, WithExtra(layout, "SeekHead",
          createElement(ID_SEEK, WithExtra(layout, "Seek",
            createElement(ID_SEEK_ID, <<28, 83, 187, 107>>)
            \o createElement(ID_SEEK_POSITION, BEBytes(position, 4))))))
      info ==
        createElement(IDS_INFO, WithExtra(layout, "Info",
          createElement(IDS_TIMECODE_SCALE, <<15, 66, 64>>)
          \o (IF layout.dur = <<>> THEN <<>>
              ELSE createElement(IDS_DURATION, <<64, 160, 0, 0>>))))
      video ==
        createElement(IDS_TRACK_ENTRY, WithExtra(layout, "TrackEntry",
          createElement(IDS_TRACK_NUMBER, <<1>>)
          \o createElement(IDS_TRACK_TYPE, <<1>>)
          \o createElement(IDS_CODEC_ID, V_VP9)
          \o createElement(IDS_VIDEO, WithExtra(layout, "Video",
               createElement(IDS_PIXEL_WIDTH, <<2, 128>>)
               \o createElement(IDS_PIXEL_HEIGHT, <<1, 224>>)))))
      audio ==
        createElement(IDS_TRACK_ENTRY,
          createElement(IDS_TRACK_NUMBER, <<2>>)
          \o createElement(IDS_TRACK_TYPE, <<2>>)
          \o createElement(IDS_CODEC_ID, A_OPUS)
          \o createElement(IDS_AUDIO, WithExtra(layout, "Audio",
               createElement(IDS_SAMPLING_FREQ, <<71, 59, 128, 0>>)
               \o createElement(IDS_CHANNELS, <<2>>))))
      tracks == createElement(IDS_TRACKS, WithExtra(layout, "Tracks", video \o audio))
      cues ==
        createElement(IDS_CUES, WithExtra(layout, "Cues",
          createElement(IDS_CUE_POINT, WithExtra(layout, "CuePoint",
            createElement(IDS_CUE_TIME, <<7>>)))
          \o createCuePoint(2)))
      cluster == createCluster(Cluster(3, 1, 2))
      front == IF layout.where = "Segment" /\ layout.place = "front"
               THEN layout.extra ELSE <<>>
      back == IF layout.where = "Segment" /\ layout.place = "back"
              THEN layout.extra ELSE <<>>
      head == info \o tracks
      position == Len(front) + Len(seek(0)) + Len(head)
                  + (IF layout.cuesLast THEN Len(back) + Len(cluster) ELSE 0)
  IN  createElement(IDS_SEGMENT,
        front \o seek(position) \o head
        \o (IF layout.cuesLast THEN back \o cluster \o cues
            ELSE cues \o back \o cluster))

SkipFile(layout) == EbmlHeader \o SkipSegment(layout)

\* the layout without its unrecognized child
WithoutExtra(layout) == [layout EXCEPT !.where = "nowhere", !.extra = <<>>]

\* an unrecognized child in every walker.  The Cues walkers run when Info
\* declares no Duration.
SkipLayouts ==
  { [family |-> "skip", children |-> <<>>, stop |-> 0, where |-> w,
     extra |-> x, place |-> p, dur |-> d, cuesLast |-> c]
    : w \in Walkers, x \in UnrecognizedChildren, p \in {"front", "back"},
      d \in {<<>>, <<5>>}, c \in BOOLEAN }

\* Cues elements without a CuePoint: without content, and of one Void child
EmptyCues ==
  { Child("Cues", createElement(IDS_CUES, content), FALSE, <<>>, <<>>, <<>>)
    : content \in {<<>>, createElement(ID_VOID, <<0>>)} }

\* the Clusters of a file, with timecodes above 0
ClusterRuns == { <<>>, <<ClusterChild(3)>>, <<ClusterChild(3), ClusterChild(9)>> }

\* an Info that declares no Duration, with and without a TimecodeScale
UndatedInfos ==
  { InfoChild(s, [dur |-> <<>>, bytes |-> <<>>])
    : s \in {e \in ScaleElements : e.how \in {"absent", "declared"}} }

\* files whose Cues element holds no CuePoint: the Cues in front of the
\* Clusters, where the walk meets them, and behind the Clusters, where a
\* SeekHead points at them
EmptyCuesLayouts ==
  { Layout("emptyCues", <<info, cues>>, <<>>, clusters) @@ [reach |-> "direct"]
    : info \in UndatedInfos, cues \in EmptyCues, clusters \in ClusterRuns }
  \cup
  { Layout("emptyCues",
           <<SeekHeadChild(Len(createSeekHead(0)) + Len(info.bytes)
                             + Len(concat([i \in 1..Len(clusters) |-> clusters[i].bytes]))),
             info>>,
           <<>>, clusters \o <<cues>>) @@ [reach |-> "seek"]
    : info \in UndatedInfos, cues \in EmptyCues, clusters \in ClusterRuns }

\* children at which the decoder fails: an ID and a size that start with
\* the byte 0x00, a Duration of 3 bytes, a SamplingFrequency of 2 bytes, and
\* a Void element of which the file holds the first byte only
DamagedChildren ==
  { [damage |-> "InvalidID", extra |-> <<0, 129, 0>>, walkers |-> Walkers],
    [damage |-> "InvalidVint", extra |-> <<ID_VOID, 0, 0>>, walkers |-> Walkers],
    [damage |-> "InvalidFloat", extra |-> createElement(IDS_DURATION, <<64, 160, 0>>),
     walkers |-> {"Info"}],
    [damage |-> "InvalidFloat", extra |-> createElement(IDS_SAMPLING_FREQ, <<71, 59>>),
     walkers |-> {"Audio"}],
    [damage |-> "RangeError", extra |-> createElement(ID_VOID, <<0>>), walkers |-> Walkers] }

\* a damaged child in every walker that decodes it
DamagedLayouts ==
  { [family |-> "damaged", children |-> <<>>, stop |-> 0, where |-> xw[2],
     extra |-> xw[1].extra, damage |-> xw[1].damage, place |-> p, dur |-> d,
     cuesLast |-> c]
    : xw \in { yw \in DamagedChildren \X Walkers : yw[2] \in yw[1].walkers },
      p \in {"front", "back"}, d \in {<<>>, <<5>>}, c \in BOOLEAN }

\* the file of a damaged layout; the file whose damage is a header that
\* runs past the bytes of the file ends behind the first byte of the child
DamagedFile(layout) ==
  LET full == SkipFile(layout)
      at == CHOOSE o \in 0..(Len(full) - Len(layout.extra)) :
              /\ SubSeq(full, o + 1, o + Len(layout.extra)) = layout.extra
              /\ \A q \in 0..(o - 1) :
                   SubSeq(full, q + 1, q + Len(layout.extra)) # layout.extra
  IN  IF layout.damage = "RangeError" THEN SubSeq(full, 1, at + 1) ELSE full

\* the file of a layout: its Segment, and the bytes behind it when it has
\* some
FileOfLayout(layout) ==
  IF layout.family = "skip" THEN SkipFile(layout)
  ELSE IF layout.family = "damaged" THEN DamagedFile(layout)
  ELSE LayoutFile(layout.children)
       \o (IF "trailer" \in DOMAIN layout THEN layout.trailer ELSE <<>>)

Layouts ==
  ScaleLayouts \cup DurationLayouts \cup ClusterStopLayouts \cup UnknownSizeLayouts
    \cup SeekLayouts \cup TrailerLayouts \cup SkipLayouts \cup EmptyCuesLayouts
    \cup DamagedLayouts

InitLayouts ==
  /\ input \in Layouts
  /\ file = FileOfLayout(input)
  /\ pc = "scanHeader"
  /\ headerResult = EmptyObject
  /\ resultBase = EmptyObject
  /\ duration = null
  /\ result = EmptyObject
  /\ error = "none"
  /\ reads = <<>>
  /\ oom = FALSE
  /\ calls = <<>>

SpecLayouts == InitLayouts /\ [][Next]_vars

\* scanHeader returned
HeaderScanDone == pc \in {"cues", "tail", "return", "done"}

\* no Info element of the file holds a TimecodeScale element
NoScaleDeclared ==
  \A i \in 1..Len(input.children) : input.children[i].scale = <<>>

\* C17  timecodeScale invariant: in every result of scanHeader and of
\* parseWebm info.timecodeScale is strictly positive, and it is 1,000,000
\* when the Info element holds no TimecodeScale; this for every
\* TimecodeScale element the scanner accepts, one without content, one of
\* UNKNOWN size and one whose content is all zero included.
C17_TimecodeScalePositive ==
  HeaderScanDone
    => /\ headerResult.info.timecodeScale > 0
       /\ NoScaleDeclared
            => headerResult.info.timecodeScale = DEFAULT_TIMECODE_SCALE
       /\ (pc = "done") => result.info.timecodeScale > 0

\* C18  Non-negative duration: a duration parseWebm returns resolved, by
\* whichever tier (the Duration of Info, the maximum of the Cues, the
\* timecodes of the tail with the signed offsets of the blocks), is at
\* least 0.
C18_DurationNonNegative ==
  (pc = "done" /\ result.duration # null)
    => /\ result.duration[2] > 0
       /\ result.duration[1] >= 0

\* the bytes of the children from the k-th on
BytesFrom(children, k) ==
  concat([i \in 1..(Len(children) - k + 1) |-> children[k + i - 1].bytes])

\* the offset in the file of the k-th child of the Segment
ChildOffset(k) == Len(file) - Len(BytesFrom(input.children, k))

\* what the first k children, Info elements of a known size, declare
RECURSIVE HeldInfo(_, _)
HeldInfo(children, k) ==
  IF k = 0 THEN [timecodeScale |-> DEFAULT_TIMECODE_SCALE]
  ELSE LET child == children[k]
           held == HeldInfo(children, k - 1)
       IN  IF child.kind # "Info" \/ child.unknown THEN held
           ELSE (IF child.dur = <<>> THEN EmptyObject
                 ELSE [duration |-> <<child.dur[1], 1>>])
                @@ (IF child.scale = <<"declared">>
                    THEN [timecodeScale |-> 1000000] ELSE EmptyObject)
                @@ held

\* the tracks the Tracks elements of a known size among the first k children
\* declare
RECURSIVE HeldTracks(_, _)
HeldTracks(children, k) ==
  IF k = 0 THEN <<>>
  ELSE HeldTracks(children, k - 1)
       \o (IF children[k].unknown THEN <<>> ELSE children[k].tracks)

\* the offset of the last Cues element of a known size among the first k
\* children, null without one
RECURSIVE HeldCues(_, _)
HeldCues(children, k) ==
  IF k = 0 THEN null
  ELSE IF children[k].kind = "Cues" /\ ~children[k].unknown
  THEN <<ChildOffset(k)>>
  ELSE HeldCues(children, k - 1)

\* what the children in front of the k-th hold
HeldBefore(k) ==
  [info |-> HeldInfo(input.children, k - 1),
   tracks |-> HeldTracks(input.children, k - 1),
   cuesOffset |-> HeldCues(input.children, k - 1)]

\* the reads scanHeader issued, in their order
HeaderReads == SelectSeq(reads, LAMBDA r : r.by = "scanHeader")

\* C19  Cluster stops the header walk: once the walk of the children of the
\* Segment has read the header of a Cluster, scanHeader issues no further
\* read and returns; the Info, Tracks, SeekHead and Cues elements behind
\* the first Cluster change nothing of info, tracks and cuesOffset.
C19_ClusterStopsWalk ==
  (input.family = "cluster" /\ pc # "scanHeader")
    => /\ HeaderScanDone
       /\ HeaderReads[Len(HeaderReads)]
            = ReadOf("scanHeader", ChildOffset(input.stop), HEADER_PROBE)
       /\ headerResult = HeldBefore(input.stop)

\* the walk stopped at a Cluster that has an Info, a Tracks, a SeekHead and
\* a Cues element behind it
C19_Witness ==
  /\ input.family = "cluster"
  /\ Len(input.children) - input.stop = 4
  /\ input.stop = 3
  /\ pc = "done"
  /\ headerResult.tracks # <<>>

\* scanHeader returned a result, whatever came after it
HeaderReturned == pc # "scanHeader" /\ headerResult # EmptyObject

\* C20 as the specification states it: at a child of the Segment that is no
\* Cluster and whose size is UNKNOWN the walk stops without an error, and
\* scanHeader returns what it had accumulated before that element.
C20_ReturnsWhatWasBefore ==
  (input.family = "unknown" /\ pc # "scanHeader")
    => /\ HeaderReturned
       /\ HeaderReads[Len(HeaderReads)]
            = ReadOf("scanHeader", ChildOffset(input.stop), HEADER_PROBE)
       /\ headerResult = HeldBefore(input.stop)

\* C20  Unknown-size truncation of header discovery: at a child of the
\* Segment that is no Cluster and whose size is UNKNOWN the walk stops
\* without an error and no element behind it is reflected in info, tracks
\* or cuesOffset; scanHeader returns what it had accumulated before that
\* element, except that a Cues element of UNKNOWN size is itself recorded:
\* cuesOffset is then its offset.
C20_UnknownSizeStopsWalk ==
  (input.family = "unknown" /\ pc # "scanHeader")
    => /\ HeaderReturned
       /\ HeaderReads[Len(HeaderReads)]
            = ReadOf("scanHeader", ChildOffset(input.stop), HEADER_PROBE)
       /\ headerResult
            = [HeldBefore(input.stop) EXCEPT
                 !.cuesOffset = IF input.children[input.stop].kind = "Cues"
                                THEN <<ChildOffset(input.stop)>> ELSE @]

\* the walk stopped at a Tracks element of UNKNOWN size that has an Info, a
\* Tracks, a SeekHead and a Cues element behind it
C20_Witness ==
  /\ input.family = "unknown"
  /\ input.children[input.stop].kind = "Tracks"
  /\ Len(input.children) - input.stop = 4
  /\ input.stop = 3
  /\ HeaderReturned
  /\ Len(headerResult.tracks) = 1

\* the Seek entries of the file whose SeekID, read as a big-endian unsigned
\* integer, is the ID of Cues
CuesSeeks ==
  { i \in 1..Len(input.seeks) :
      BEUint(input.seeks[i].id, 0, Len(input.seeks[i].id), 0) = IDS_CUES }

\* segmentStart + SeekPosition of the last Seek entry for Cues, null without
\* one
SoughtCues ==
  IF CuesSeeks = {} THEN null
  ELSE LET last == CHOOSE i \in CuesSeeks : \A j \in CuesSeeks : j <= i
       IN  <<ChildOffset(1) + input.seeks[last].pos>>

\* C21  SeekHead resolution: the SeekID of every Seek entry is the
\* big-endian unsigned integer of its content bytes, for every content of 1
\* to 4 bytes, with no VINT decoding and no failure on bytes that are no
\* valid VINT, and the SeekPosition a big-endian unsigned integer;
\* cuesOffset is segmentStart + SeekPosition exactly when the SeekID is the
\* ID of Cues, and the Seek entries of other IDs leave it as it is.
C21_SeekHeadResolution ==
  (input.family = "seek" /\ pc # "scanHeader")
    => /\ HeaderReturned
       /\ headerResult.cuesOffset = SoughtCues

\* segmentStart + segmentSize: the offset of the first byte behind the
\* Segment
SegmentEnd == Len(LayoutFile(input.children))

\* C22  The walk of the children of the Segment is bounded by the range of
\* the Segment: with a Segment of a known size scanHeader reads no element
\* header at or behind segmentStart + segmentSize, and the bytes that follow
\* the Segment neither change the result nor make the parse fail.
C22_WalkStaysInSegment ==
  (input.family = "trailer" /\ pc # "scanHeader")
    => /\ HeaderReturned
       /\ \A i \in 1..Len(HeaderReads) : HeaderReads[i].offset < SegmentEnd
       /\ headerResult = HeldBefore(Len(input.children) + 1)

\* what the file of a skip layout declares
SkipInfo ==
  [timecodeScale |-> 1000000]
  @@ (IF input.dur = <<>> THEN EmptyObject ELSE [duration |-> <<input.dur[1], 1>>])

SkipTracks ==
  << [trackNumber |-> 1, trackType |-> 1, codecId |-> V_VP9,
      video |-> [width |-> 640, height |-> 480]],
     [trackNumber |-> 2, trackType |-> 2, codecId |-> A_OPUS,
      audio |-> [sampleRate |-> <<48000, 1>>, channels |-> 2]] >>

\* the duration of the file: the declared one, or the largest CueTime, 7
SkipDuration ==
  IF input.dur = <<>> THEN <<7, 1000>> ELSE Rat(input.dur[1], 1000)

\* the offsets at which the bytes of the unrecognized child are in the file
ExtraOffsets ==
  { o \in 0..(Len(file) - Len(input.extra)) :
      SubSeq(file, o + 1, o + Len(input.extra)) = input.extra }

\* the walker the unrecognized child is in has run: the walkers of the Cues
\* run when Info declares no Duration
WalkerRan == input.where \notin {"Cues", "CuePoint"} \/ input.dur = <<>>

\* the walker read the header of the unrecognized child at o, read nothing
\* inside the child, and read the header of the child behind it
SkippedAt(o) ==
  /\ \E i \in 1..Len(reads) : reads[i].offset = o /\ reads[i].length = HEADER_PROBE
  /\ \A i \in 1..Len(reads) :
       ~(reads[i].offset > o /\ reads[i].offset < o + Len(input.extra))
  /\ (input.place = "front")
       => \E i \in 1..Len(reads) :
            /\ reads[i].offset = o + Len(input.extra)
            /\ reads[i].length = HEADER_PROBE

\* every read of the scanner in progress issued and resolved, in order
ReadsDoneOf(call) ==
  [call EXCEPT !.completed = @ \o call.outstanding \o call.pending,
               !.outstanding = <<>>, !.pending = <<>>]

\* the call as it ends when it runs alone, scanner by scanner
RECURSIVE RunThrough(_)
RunThrough(call) ==
  IF call.pc \in {"done", "rejected"} THEN call
  ELSE IF ~Drained(call) THEN RunThrough(ReadsDoneOf(call))
  ELSE IF call.pc = "scanHeader" THEN RunThrough(HeaderScannedOf(call))
  ELSE IF call.pc = "cuesTier" THEN RunThrough(CuesTierOf(call, call.duration))
  ELSE IF call.pc = "scanCues" THEN RunThrough(CuesScannedOf(call))
  ELSE IF call.pc = "tailTier" THEN RunThrough(TailTierOf(call, call.duration))
  ELSE IF call.pc = "scanTail" THEN RunThrough(TailScannedOf(call))
  ELSE RunThrough(ReturnOf(call))

\* the result of parseWebm on the same file without the unrecognized child
ResultWithoutExtra == RunThrough(NewCall(SkipFile(WithoutExtra(input)))).result

C25_EmptyCuesResolveToZero ==
  (input.family = "emptyCues" /\ Finished)
    => /\ pc = "done"
       /\ ~NoReadBy("scanCues")
       /\ NoReadBy("scanTail")
       /\ result.duration = <<0, 1>>

\* a parse of a file whose SeekHead points at Cues without content behind
\* two Clusters, the tail of which holds the timecode 9
C25_Witness ==
  /\ input.family = "emptyCues"
  /\ input.reach = "seek"
  /\ Len(input.children) = 5
  /\ input.children[5].bytes = createElement(IDS_CUES, <<>>)
  /\ scanTail(file, Len(file), 1000000).value = <<9, 1000>>
  /\ pc = "done"
  /\ result.duration = <<0, 1>>

\* the walkers of the header scan
HeaderWalkers == Walkers \ {"Cues", "CuePoint"}

\* C29  Header and Cues decode errors are fatal: a decoding failure in the
\* header scan or in the Cues scanner (an ID or a size that starts with
\* 0x00, a Duration or SamplingFrequency of a size other than 4 and 8, an
\* element header that runs past the bytes read) makes the parse reject
\* with that failure; no result is returned, and no later tier reads.
C29_DecodeErrorsAreFatal ==
  /\ (input.family = "damaged" /\ input.where \in HeaderWalkers /\ pc # "scanHeader")
       => /\ pc = "rejected"
          /\ error = input.damage
          /\ result = EmptyObject
          /\ NoReadBy("scanCues")
          /\ NoReadBy("scanTail")
  /\ (input.family = "damaged" /\ input.where \notin HeaderWalkers
        /\ input.dur = <<>> /\ pc \notin {"scanHeader", "cues"})
       => /\ pc = "rejected"
          /\ error = input.damage
          /\ result = EmptyObject
          /\ ~NoReadBy("scanCues")
          /\ NoReadBy("scanTail")

\* a parse rejected by the Cues scanner at a CuePoint whose first child has
\* an ID that starts with 0x00, the header scan having succeeded
C29_Witness ==
  /\ input.family = "damaged"
  /\ input.where = "CuePoint"
  /\ input.damage = "InvalidID"
  /\ input.dur = <<>>
  /\ pc = "rejected"
  /\ error = "InvalidID"
  /\ headerResult.cuesOffset # null

\* a parse rejected by the header scan at a SamplingFrequency of 2 bytes
C29_WitnessHeader ==
  /\ input.family = "damaged"
  /\ input.where = "Audio"
  /\ input.damage = "InvalidFloat"
  /\ pc = "rejected"
  /\ error = "InvalidFloat"
  /\ headerResult = EmptyObject

\* --------------------------------------------------------------------------
\* The scanners on their own: scanCues over a reader that holds a Cues
\* element, scanTail over a reader that holds a window of candidates, the
\* way core/scanner.test.ts calls them
\* --------------------------------------------------------------------------
\* the largest number of CuePoints in a Cues element
MaxCuePoints == 3

\* the largest number of pieces in a window, a last piece cut by the end of
\* the window not counted
MaxPieces == 2

\* the value of a CueTime or Timecode over the fewest bytes
ShortestBytes(value) ==
  IF value < 256 THEN <<value>>
  ELSE IF value < 65536 THEN BEBytes(value, 2)
  ELSE BEBytes(value, 4)

\* a CuePoint as the scanner's test writes it
createTestCuePoint(time) ==
  createElement(IDS_CUE_POINT, createElement(IDS_CUE_TIME, ShortestBytes(time)))

CueTimes == {0, 100, 500, 70000}

ScannerScales == {1000000, 2500000, 1}

\* a reader that holds junk and then a Cues element of CuePoints in any
\* order
CuesSamples ==
  { [kind |-> "cues", cueTimes |-> times, scale |-> scale, offset |-> offset,
     bytes |-> [i \in 1..offset |-> 0]
                 \o createElement(IDS_CUES,
                      concat([i \in 1..Len(times) |-> createTestCuePoint(times[i])]))]
    : times \in UNION { [1..n -> CueTimes] : n \in 0..MaxCuePoints },
      scale \in ScannerScales,
      offset \in {0, 3} }

\* a Timecode element with a value of two bytes
TimecodeElement(timecode) == createElement(IDS_TIMECODE, BEBytes(timecode, 2))

\* the content of a block: the track number 1, the timecode relative to the
\* Cluster's, and the flags
BlockContent(relative) == <<129>> \o Int16Bytes(relative) \o <<0>>

SimpleBlockOf(relative) == createElement(IDS_SIMPLE_BLOCK, BlockContent(relative))

\* a BlockGroup whose Block comes behind another child
BlockGroupOf(relative) ==
  createElement(IDS_BLOCK_GROUP,
    createElement(ID_VOID, <<0>>) \o createElement(ID_BLOCK, BlockContent(relative)))

\* a piece of a window: its bytes, and the timecodes the scanner is to
\* collect from it
Piece(kind, bytes, ticks) == [kind |-> kind, bytes |-> bytes, ticks |-> ticks]

\* junk, and Clusters that decode
WholePieces ==
  {Piece("junk", <<0, 0, 0>>, <<>>)}
  \cup { Piece("cluster", createElement(IDS_CLUSTER, TimecodeElement(t)), <<t>>)
         : t \in {0, 1000, 2000} }
  \cup { Piece("simpleBlock",
               createElement(IDS_CLUSTER, TimecodeElement(1000) \o SimpleBlockOf(r)),
               <<1000, 1000 + r>>)
         : r \in {1500, -3} }
  \cup { Piece("unknownSize",
               createUnknownSizeElement(IDS_CLUSTER,
                 createElement(IDS_TIMECODE, <<t>>) \o SimpleBlockOf(r)),
               <<t, t + r>>)
         : t \in {0, 200}, r \in {0, 7} }
  \cup { Piece("blockGroup",
               createElement(IDS_CLUSTER, TimecodeElement(1000) \o BlockGroupOf(1200)),
               <<1000, 2200>>) }

\* Clusters that do not start with a Timecode
UntimedPieces ==
  { Piece("untimed", createElement(IDS_CLUSTER, SimpleBlockOf(5)), <<>>),
    Piece("untimed", createElement(IDS_CLUSTER, createElement(ID_VOID, <<0, 0>>) \o TimecodeElement(3000)), <<>>) }

\* a Cluster whose whole content is a Timecode with a value of one byte
ShortPieces ==
  { Piece("short", createElement(IDS_CLUSTER, createElement(IDS_TIMECODE, <<t>>)), <<t>>)
    : t \in {0, 9} }

\* candidates at which the decoder fails: the size of the Cluster, the ID of
\* its first child, the ID of a child behind the Timecode, the track number
\* of a SimpleBlock and the header of a child of a BlockGroup start with the
\* byte 0x00
BrokenPieces ==
  { Piece("broken", writeID(IDS_CLUSTER) \o <<0>> \o TimecodeElement(3000), <<>>),
    Piece("broken", createElement(IDS_CLUSTER, <<0, 0, 0, 0>>), <<>>),
    Piece("broken", createElement(IDS_CLUSTER, TimecodeElement(2500) \o <<0, 0>>), <<2500>>),
    Piece("broken",
          createElement(IDS_CLUSTER,
            TimecodeElement(1000) \o createElement(IDS_SIMPLE_BLOCK, <<0, 127, 255, 0>>)),
          <<1000>>),
    Piece("broken",
          createElement(IDS_CLUSTER,
            TimecodeElement(1000) \o createElement(IDS_BLOCK_GROUP, <<0, 0, 0>>)),
          <<1000>>) }

\* candidates the end of the window cuts: inside the size of the Cluster,
\* inside the header of a child behind the Timecode, and inside a SimpleBlock
\* in front of its timecode
CutPieces ==
  { Piece("cut", writeID(IDS_CLUSTER) \o <<64>>, <<>>),
    Piece("cut", writeID(IDS_CLUSTER) \o writeVint(10) \o TimecodeElement(2700) \o <<163>>, <<2700>>),
    Piece("cut", writeID(IDS_CLUSTER) \o writeVint(10) \o TimecodeElement(2700) \o <<163, 132, 129>>, <<2700>>) }

TailPieces == WholePieces \cup UntimedPieces \cup ShortPieces \cup BrokenPieces

\* a window of pieces, the last of which the end of the window may cut
TailSamples ==
  { [kind |-> "tail", pieces |-> pieces \o last, scale |-> scale,
     bytes |-> concat([i \in 1..Len(pieces \o last) |-> (pieces \o last)[i].bytes])]
    : pieces \in UNION { [1..n -> TailPieces] : n \in 0..MaxPieces },
      last \in {<<>>} \cup { <<p>> : p \in CutPieces },
      scale \in {1000000, 2500000} }

InitScanners ==
  /\ input \in CuesSamples \cup TailSamples
  /\ file = input.bytes
  /\ pc = "reader"
  /\ headerResult = EmptyObject
  /\ resultBase = EmptyObject
  /\ duration = null
  /\ result = EmptyObject
  /\ error = "none"
  /\ reads = <<>>
  /\ oom = FALSE
  /\ calls = <<>>

\* scanCues(reader, cuesOffset, timecodeScale)
ScanCues ==
  /\ pc = "reader"
  /\ input.kind = "cues"
  /\ pc' = "scanCues"
  /\ result' = scanCues(file, input.offset, input.scale)
  /\ UNCHANGED <<input, file, headerResult, resultBase, duration, error, reads, oom, calls>>

\* scanTail(reader, file.length, timecodeScale)
ScanTail ==
  /\ pc = "reader"
  /\ input.kind = "tail"
  /\ pc' = "scanTail"
  /\ result' = scanTail(file, getSize(file), input.scale)
  /\ UNCHANGED <<input, file, headerResult, resultBase, duration, error, reads, oom, calls>>

NextScanners == ScanCues \/ ScanTail

SpecScanners == InitScanners /\ [][NextScanners]_vars

\* no scan left the range of encodings the model computes
ScannersInRange == pc = "scanTail" => ~result.oom

\* C24  Cues maximum: when the element at cuesOffset is a Cues element,
\* scanCues returns the largest CueTime of its CuePoints times
\* timecodeScale / 1e9, whatever the order of the CuePoints.
C24_CuesMaximum ==
  pc = "scanCues"
    => /\ result.err = "none"
       /\ result.value
            = MulDiv(<<MaxOf(input.cueTimes), 1>>, input.scale, NANOS_PER_SECOND)

\* scanCues over CuePoints whose largest CueTime is neither the first nor
\* the last
C24_Witness ==
  /\ pc = "scanCues"
  /\ input.cueTimes = <<100, 70000, 500>>
  /\ input.scale = 1000000
  /\ result.value = <<70, 1>>

\* the candidates of the window the scanner takes a timecode from: those
\* that hold one, but for a Cluster of three bytes of content that ends the
\* window
Timed(pieces) ==
  { i \in 1..Len(pieces) :
      /\ pieces[i].ticks # <<>>
      /\ ~(pieces[i].kind = "short" /\ i = Len(pieces)) }

\* the timecodes of these candidates
Ticks(pieces) ==
  UNION { { pieces[i].ticks[k] : k \in 1..Len(pieces[i].ticks) } : i \in Timed(pieces) }

\* the largest of them, and no less than 0, where the running maximum starts
LargestTick(pieces) ==
  CHOOSE t \in Ticks(pieces) \cup {0} : \A u \in Ticks(pieces) \cup {0} : u <= t

\* what scanTail is to return for the window
TailValue(sample) ==
  IF Timed(sample.pieces) = {} THEN null
  ELSE MulDiv(<<LargestTick(sample.pieces), 1>>, sample.scale, NANOS_PER_SECOND)

\* the candidates at which the decoder fails
Failing(pieces) == { i \in 1..Len(pieces) : pieces[i].kind \in {"broken", "cut"} }

\* C26  Tail scanner error containment: whatever the window holds, scanTail
\* returns; a decoding failure at one candidate (an invalid VINT or ID, a
\* read past the end of the window) ends that candidate only, and the value
\* returned is the largest of the timecodes of all candidates, those read
\* from the failing one before it failed included.
C26_TailErrorsContained ==
  (pc = "scanTail" /\ Failing(input.pieces) # {})
    => /\ DOMAIN result = {"value", "reads", "oom"}
       /\ result.value = TailValue(input)

\* a window of a candidate with an invalid size between two Clusters, the
\* first of which holds the largest timecode
C26_Witness ==
  /\ pc = "scanTail"
  /\ Len(input.pieces) = 3
  /\ input.pieces[1].kind = "simpleBlock"
  /\ input.pieces[1].ticks = <<1000, 2500>>
  /\ input.pieces[2].kind = "broken"
  /\ input.pieces[2].ticks = <<>>
  /\ input.pieces[3].kind = "cut"
  /\ input.scale = 1000000
  /\ result.value = <<5, 2>>

\* the offsets of the window at which the four bytes of the Cluster ID stand
Signatures == { j \in 0..(Len(file) - 4) : Uint32Is(file, j, IDS_CLUSTER) }

\* C27  Tail scanner 'not found' condition: scanTail returns 'not found' if
\* and only if no Cluster signature occurs in the window; whenever one
\* occurs it returns the running maximum of the timecodes times
\* timecodeScale / 1e9.
C27_NotFoundIffNoSignature ==
  pc = "scanTail"
    => /\ result.value = null <=> Signatures = {}
       /\ Signatures # {}
            => result.value
                 = MulDiv(<<LargestTick(input.pieces), 1>>, input.scale, NANOS_PER_SECOND)

\* C27 (as the code has it)  scanTail returns 'not found' if and only if no
\* candidate of the window gave a timecode: none whose signature is followed
\* by a size that decodes, four more bytes of the window and a first child
\* with the ID of Timecode and a size that decodes.  Otherwise it returns
\* the running maximum of the timecodes times timecodeScale / 1e9.
C27_NotFoundIffNoTimecode ==
  pc = "scanTail"
    => /\ result.value = null <=> Timed(input.pieces) = {}
       /\ Signatures = {} => result.value = null
       /\ Timed(input.pieces) # {}
            => result.value
                 = MulDiv(<<LargestTick(input.pieces), 1>>, input.scale, NANOS_PER_SECOND)

\* a window of junk and one Cluster whose first child is a SimpleBlock: the
\* signature is there and the scan finds nothing
C27_Witness ==
  /\ pc = "scanTail"
  /\ Len(input.pieces) = 2
  /\ input.pieces[1].kind = "junk"
  /\ input.pieces[2].bytes = createElement(IDS_CLUSTER, SimpleBlockOf(5))
  /\ Signatures = {3}
  /\ result.value = null

\* the pieces of the window are Clusters that decode and start with a
\* Timecode
AllTimedClusters(pieces) ==
  /\ pieces # <<>>
  /\ \A i \in 1..Len(pieces) :
       pieces[i].kind \in {"cluster", "simpleBlock", "unknownSize", "blockGroup", "short"}

\* the largest timecode the pieces hold
LargestOf(pieces) ==
  CHOOSE t \in UNION { { pieces[i].ticks[k] : k \in 1..Len(pieces[i].ticks) } : i \in 1..Len(pieces) } :
    \A i \in 1..Len(pieces) : \A k \in 1..Len(pieces[i].ticks) : pieces[i].ticks[k] <= t

\* C28  Block refinement in the tail scan: for Clusters whose first child is
\* a Timecode the scan walks the children up to the end of the Cluster, or
\* of the window when the size is UNKNOWN, and adds to the Cluster's
\* timecode the signed 16-bit timecode of each SimpleBlock and of each Block
\* in a BlockGroup; the value returned is the largest of the Cluster
\* timecodes and of these sums, and a window whose only timecode is 0 gives
\* 0, not 'not found'.
C28_BlockRefinement ==
  (pc = "scanTail" /\ AllTimedClusters(input.pieces))
    => result.value
         = MulDiv(<<LargestOf(input.pieces), 1>>, input.scale, NANOS_PER_SECOND)

\* --------------------------------------------------------------------------
\* The loops of the walkers, one iteration a step: the cursor of the loop
\* and the end it runs to.  What an iteration does with the child it reads
\* is in the walkers above; a step keeps what decides whether the loop goes
\* on.
\* --------------------------------------------------------------------------
\* the largest number of children in the content a loop walks
MaxChildren == 2

\* the loops that read a child with readElementHeader and run to the end of
\* their element
ElementLoops ==
  { "SeekHead", "Seek", "Info", "Tracks", "TrackEntry", "Video", "Audio",
    "Cues", "CuePoint" }

Loops ==
  ElementLoops
    \cup {"SegmentSearch", "SegmentChildren", "TailBytes", "ClusterBlocks", "BlockGroup"}

\* the children a loop may meet: Void elements of the sizes 0, UNKNOWN and
\* 1, a byte no header starts with, and the elements at which a loop breaks
LoopChildren ==
  { <<ID_VOID, 128>>, <<ID_VOID, 255>>, <<ID_VOID, 129, 0>>, <<0>>,
    createElement(IDS_SEGMENT, <<>>), createElement(IDS_CLUSTER, <<>>),
    createElement(ID_BLOCK, <<129>>) }

\* a loop over the content of an element: the size the element declares is
\* that of the content, one byte less, or UNKNOWN
LoopSamples ==
  { [loop |-> loop, declared |-> declared,
     bytes |-> concat([i \in 1..Len(children) |-> children[i]])]
    : loop \in Loops,
      declared \in {"whole", "short", "unknown"},
      children \in UNION { [1..n -> LoopChildren] : n \in 0..MaxChildren } }

\* const end = offset + size, the content starting at offset 0
EndOf(sample) ==
  IF sample.declared = "unknown" THEN 0 + VINT_UNKNOWN_MARKER
  ELSE IF sample.declared = "short" THEN Max(0, Len(sample.bytes) - 1)
  ELSE Len(sample.bytes)

\* faulty variant: the cursor moved by the size of the content alone
Advance_bySize(cursor, headerSize, size) == cursor + size

\* current += headerSize + elSize
Advance(cursor, headerSize, size) == cursor + headerSize + size

\* the condition of the while (or for) of the loop
Continues ==
  IF input.loop \in ElementLoops THEN result.cursor < result.end
  ELSE IF input.loop \in {"SegmentSearch", "SegmentChildren"}
  THEN result.cursor < Min(getSize(file), HEADER_SCAN_LIMIT)
  ELSE IF input.loop = "TailBytes" THEN result.cursor < Len(file) - 4
  ELSE result.cursor < Min(IF result.end = VINT_UNKNOWN_MARKER THEN Len(file) ELSE result.end,
                           Len(file))

InitLoops ==
  /\ input \in LoopSamples
  /\ file = input.bytes
  /\ pc = "loop"
  /\ headerResult = EmptyObject
  /\ resultBase = EmptyObject
  /\ duration = null
  /\ result = [cursor |-> 0, end |-> EndOf(input)]
  /\ error = "none"
  /\ reads = <<>>
  /\ oom = FALSE
  /\ calls = <<>>

\* an iteration of parseSeekHead (of either loop), parseInfo, parseTracks,
\* parseTrackEntry, parseVideo, parseAudio, scanCues or parseCuePoint
ElementStep ==
  /\ pc = "loop"
  /\ input.loop \in ElementLoops
  /\ Continues
  /\ \E h \in {readElementHeader(file, result.cursor)} :
       IF h.err # "none"
       THEN /\ pc' = "thrown"
            /\ error' = h.err
            /\ UNCHANGED result
       ELSE /\ pc' = "loop"
            /\ result' = [result EXCEPT !.cursor = Advance(@, h.headerSize, h.size)]
            /\ UNCHANGED error
  /\ UNCHANGED <<input, file, headerResult, resultBase, duration, reads, oom, calls>>

\* an iteration of the loop of scanHeader that looks for the Segment
SearchStep ==
  /\ pc = "loop"
  /\ input.loop = "SegmentSearch"
  /\ Continues
  /\ \E h \in {readElementHeader(file, result.cursor)} :
       IF h.err # "none"
       THEN /\ pc' = "thrown"
            /\ error' = h.err
            /\ UNCHANGED result
       ELSE IF h.id = IDS_SEGMENT
       THEN /\ pc' = "left"
            /\ UNCHANGED <<result, error>>
       ELSE /\ pc' = "loop"
            /\ result' = [result EXCEPT !.cursor = Advance(@, h.headerSize, h.size)]
            /\ UNCHANGED error
  /\ UNCHANGED <<input, file, headerResult, resultBase, duration, reads, oom, calls>>

\* an iteration of the loop of scanHeader over the children of the Segment
ChildrenStep ==
  /\ pc = "loop"
  /\ input.loop = "SegmentChildren"
  /\ Continues
  /\ IF result.cursor >= getSize(file)
     THEN /\ pc' = "left"
          /\ UNCHANGED <<result, error>>
     ELSE \E h \in {readElementHeader(file, result.cursor)} :
            IF h.err # "none"
            THEN /\ pc' = "thrown"
                 /\ error' = h.err
                 /\ UNCHANGED result
            ELSE IF StopsWalk(h.id) \/ EndsWalk(h.size)
            THEN /\ pc' = "left"
                 /\ UNCHANGED <<result, error>>
            ELSE /\ pc' = "loop"
                 /\ result' = [result EXCEPT !.cursor = Advance(@, h.headerSize, h.size)]
                 /\ UNCHANGED error
  /\ UNCHANGED <<input, file, headerResult, resultBase, duration, reads, oom, calls>>

\* for (let i = 0; i < length - 4; i++)
ByteStep ==
  /\ pc = "loop"
  /\ input.loop = "TailBytes"
  /\ Continues
  /\ pc' = "loop"
  /\ result' = [result EXCEPT !.cursor = @ + 1]
  /\ UNCHANGED <<input, file, headerResult, resultBase, duration, error, reads, oom, calls>>

\* an iteration of the walk of scanTail over the children of a Cluster; a
\* failure of the decoder is caught and breaks the loop
BlockStep ==
  /\ pc = "loop"
  /\ input.loop = "ClusterBlocks"
  /\ Continues
  /\ \E elId \in {readID(file, result.cursor)} :
       IF elId.err # "none"
       THEN /\ pc' = "left"
            /\ UNCHANGED result
       ELSE \E elSize \in {readVint(file, result.cursor + elId.length)} :
              IF elSize.err # "none"
              THEN /\ pc' = "left"
                   /\ UNCHANGED result
              ELSE /\ pc' = "loop"
                   /\ result' = [result EXCEPT
                                   !.cursor = Advance(@, elId.length + elSize.length,
                                                      elSize.value)]
  /\ UNCHANGED <<input, file, headerResult, resultBase, duration, error, reads, oom, calls>>

\* an iteration of the walk of scanTail over the children of a BlockGroup;
\* a failure of the decoder is thrown to the catch of the Cluster walk
BlockGroupStep ==
  /\ pc = "loop"
  /\ input.loop = "BlockGroup"
  /\ Continues
  /\ \E bgId \in {readID(file, result.cursor)} :
       IF bgId.err # "none"
       THEN /\ pc' = "thrown"
            /\ error' = bgId.err
            /\ UNCHANGED result
       ELSE \E bgSize \in {readVint(file, result.cursor + bgId.length)} :
              IF bgSize.err # "none"
              THEN /\ pc' = "thrown"
                   /\ error' = bgSize.err
                   /\ UNCHANGED result
              ELSE IF bgId.value = ID_BLOCK
              THEN /\ pc' = "left"
                   /\ UNCHANGED <<result, error>>
              ELSE /\ pc' = "loop"
                   /\ result' = [result EXCEPT
                                   !.cursor = Advance(@, bgId.length + bgSize.length,
                                                      bgSize.value)]
                   /\ UNCHANGED error
  /\ UNCHANGED <<input, file, headerResult, resultBase, duration, reads, oom, calls>>

\* the condition of the loop fails
LeaveLoop ==
  /\ pc = "loop"
  /\ ~Continues
  /\ pc' = "left"
  /\ UNCHANGED <<input, file, headerResult, resultBase, duration, result, error, reads, oom, calls>>

\* the loops on their own, and the calls of parseWebm on the layouts, whose
\* scanners run these loops
InitTermination == InitLoops \/ InitLayouts

NextTermination ==
  \/ ElementStep
  \/ SearchStep
  \/ ChildrenStep
  \/ ByteStep
  \/ BlockStep
  \/ BlockGroupStep
  \/ LeaveLoop
  \/ ScanHeaderStep
  \/ CuesTier
  \/ TailTier
  \/ Return

SpecTermination == InitTermination /\ [][NextTermination]_vars

\* a read always completes and the code awaits it, so a loop or a call that
\* can take a step takes it
SpecTerminationFair == SpecTermination /\ WF_vars(NextTermination)

\* C30  Termination: parseWebm returns or throws, and every loop of the
\* walkers (the search for the Segment, the children of the Segment,
\* SeekHead, Seek, Info, Tracks, TrackEntry, Video, Audio, Cues, CuePoint,
\* the bytes of the tail window, the children of a Cluster and of a
\* BlockGroup) moves its cursor forward in every iteration, for a child of
\* the size 0 and of the size UNKNOWN (-1) as well, and comes to an end.
C30_Termination ==
  /\ [][pc' = "loop" => result'.cursor > result.cursor]_vars
  /\ <>(pc \in {"left", "thrown", "done", "rejected"})

\* a loop went over a child of the size 0 and one of the size UNKNOWN, the
\* cursor moving by 2 and by 1, and ran to its end
C30_Witness ==
  /\ pc = "left"
  /\ input.loop = "TrackEntry"
  /\ input.declared = "short"
  /\ file = <<ID_VOID, 128, ID_VOID, 255>>
  /\ result.cursor = 3

====
